---------------------------- MODULE Spec2Model ----------------------------
(***************************************************************************)
(* Verification model of the VideoTools batch scripts.                     *)
(*                                                                         *)
(* Part 1: video_to_gif.py                                                 *)
(*   - snap_to_frame / calculate_keep_segments (interval algebra)          *)
(*   - process_video_to_gif / run_batch (pipeline and event stream)        *)
(* Part 2: video_splitter_batch.py                                         *)
(*   - run_batch / process_video_file / split_single_segment (files one    *)
(*     after the other, a pool of segment jobs per file)                   *)
(* Part 3: video_audio_separator_batch.py                                  *)
(*   - run_batch / process_single_file (a pool of file jobs)               *)
(*                                                                         *)
(* Time is counted in ticks of 1/TicksPerSecond second, in exact           *)
(* arithmetic.  Frame rates are drawn from divisors of TicksPerSecond so   *)
(* that every frame boundary is a whole number of ticks.                   *)
(***************************************************************************)
EXTENDS Integers, Sequences, FiniteSets, TLC

\* ------------------------------------------------------------------ bounds
\* Longest time value (in ticks) of the inputs with arbitrary shape.
MaxTimeAny == 3
\* Longest time value (in ticks) of the well-formed inputs.
MaxTime == 5
\* Longest cut_segments list.
MaxCuts == 2
\* Longest input file list of a batch run.
MaxFiles == 2

\* Frame rates (frames per second); 0 means "no snapping".
FpsValues == {0, 2, 3}
\* Ticks per second: the least common multiple of the positive frame rates.
TicksPerSecond == 2 * 3

\* Optional[float]: None is the empty sequence, a value t is <<t>>.
None == <<>>
Some(t) == <<t>>

VARIABLES
    pc,            \* position of the program
    duration,      \* info['duration'], in ticks
    trim_start,    \* config trim_start, in ticks
    trim_end,      \* config trim_end: None or Some(ticks)
    cut_segments,  \* config cut_segments: sequence of [start, end]
    target_fps,    \* frame rate (config frame_rate) used for snapping
    keep_segments, \* the list calculate_keep_segments returned last
    \* --- video_to_gif.py: run_batch / process_video_to_gif
    files,         \* input_config["files"]: sequence of paths
    existing,      \* the listed paths for which os.path.isfile holds
    speed_mult,    \* config speed_multiplier
    valid_files,   \* run_batch: valid_files
    results,       \* run_batch: results
    events,        \* the lines written to standard output, in order
    invocations,   \* the encode-tool command lines run, in order
    segment_files, \* process_video_to_gif: segment_files
    source_for_gif,\* process_video_to_gif: source_for_gif
    temp_dir,      \* TRUE while the TemporaryDirectory of the file exists
    file_keep,     \* per processed file: None (probe failed) or
                   \* Some(keep_segments computed for it)
    temp_files,    \* the files inside the TemporaryDirectory
    exit_code,     \* None while the process runs, Some(status) once it ended
    \* --- video_splitter_batch.py / video_audio_separator_batch.py
    parallel_jobs, \* config parallel_jobs
    split_method,  \* config split_method
    split_value,   \* config split_value
    workers,       \* max_workers of the ProcessPoolExecutor in use
    jobs,          \* the futures of the executor in use, in submission order
    outputs,       \* process_video_file: outputs
    errors,        \* process_video_file: errors
    settings,      \* run_batch: the per-file parameter settings of the config
    \* --- main (the same in the three batch scripts)
    argv,          \* sys.argv
    config_file,   \* what open(config_path) and json.load find at argv[2]
    stdin,         \* what sys.stdin holds
    \* --- video_to_gif.py: build_scale_filter
    resolution_config, \* the resolution object of the config
    source_width,  \* info['width']
    source_height, \* info['height']
    scale_filter,  \* None, or Some(the [w, h] of the returned scale filter)
    \* --- video_audio_separator_batch.py: process_single_file in a worker
    info,          \* None, or Some(the metadata probe_video returned)
    video_result,  \* None, or Some(what extract_video_stream returned)
    audio_result,  \* None, or Some(the audio entry of the result)
    audio_method,  \* extract_audio_stream: the number of the method tried
    single_result, \* None, or Some(what process_single_file returned)
    \* --- segment arithmetic of the two splitters
    segment_tasks, \* the segment tasks built, or the segments attempted
    summary        \* video_splitter.py: None, or Some(the Settings Summary)

calcVars == <<duration, trim_start, trim_end, cut_segments, target_fps>>
gifVars == <<files, existing, speed_mult, valid_files, results, events,
             invocations, segment_files, source_for_gif, temp_dir, file_keep,
             temp_files, exit_code>>
poolVars == <<parallel_jobs, split_method, split_value, workers, jobs,
              outputs, errors>>
mainVars == <<argv, config_file, stdin>>
scaleVars == <<resolution_config, source_width, source_height, scale_filter>>
workerVars == <<info, video_result, audio_result, audio_method,
               single_result>>
taskVars == <<segment_tasks, summary>>
extraVars == <<settings, mainVars, scaleVars, workerVars, taskVars>>
vars == <<pc, calcVars, keep_segments, gifVars, poolVars, extraVars>>

\* --------------------------------------------------------- pure functions

\* Python's round() of the rational n/d (d > 0): nearest integer, ties to
\* the even neighbour.
round(n, d) ==
    LET q == n \div d
        r == n % d
    IN  IF 2 * r < d THEN q
        ELSE IF 2 * r > d THEN q + 1
        ELSE IF q % 2 = 0 THEN q ELSE q + 1

\* snap_to_frame(time, fps): time and result in ticks.
\* time / frame_duration = time * fps / TicksPerSecond frames.
snap_to_frame(time, fps) ==
    IF fps <= 0 THEN time
    ELSE LET frame_duration == TicksPerSecond \div fps
             frame_num == round(time * fps, TicksPerSecond)
         IN  frame_num * frame_duration

\* sorted(cut_segments, key=lambda x: x['start']): a stable sort; equal keys
\* keep their input order.
RECURSIVE sorted(_)
sorted(s) ==
    IF s = <<>> THEN <<>>
    ELSE LET n == Len(s)
             x == s[n]
             front == sorted(SubSeq(s, 1, n - 1))
             k == Cardinality({i \in 1..(n - 1) : front[i].start <= x.start})
         IN  SubSeq(front, 1, k) \o <<x>> \o SubSeq(front, k + 1, n - 1)

\* A variant of the if/elif chain whose "overlaps the end" test is strict
\* (cut_end > end): a cut ending exactly at the range end then matches no
\* branch.
SubtractCutStrictEnd(start, end, cut_start, cut_end) ==
    IF cut_end <= start \/ cut_start >= end THEN <<  <<start, end>>  >>
    ELSE IF cut_start <= start /\ cut_end < end THEN <<  <<cut_end, end>>  >>
    ELSE IF cut_start > start /\ cut_end > end THEN <<  <<start, cut_start>>  >>
    ELSE IF cut_start > start /\ cut_end < end
         THEN <<  <<start, cut_start>>, <<cut_end, end>>  >>
    ELSE <<>>

\* A variant of the if/elif chain whose "in the middle" branch keeps only the
\* part before the cut.
SubtractCutKeepsHead(start, end, cut_start, cut_end) ==
    IF cut_end <= start \/ cut_start >= end THEN <<  <<start, end>>  >>
    ELSE IF cut_start <= start /\ cut_end < end THEN <<  <<cut_end, end>>  >>
    ELSE IF cut_start > start /\ cut_end >= end THEN <<  <<start, cut_start>>  >>
    ELSE IF cut_start > start /\ cut_end < end
         THEN <<  <<start, cut_start>>  >>
    ELSE <<>>

\* The body of the inner loop: what one keep range contributes to new_ranges
\* for one cut (the if/elif chain; no branch taken = range dropped).
SubtractCut(start, end, cut_start, cut_end) ==
    IF cut_end <= start \/ cut_start >= end THEN <<  <<start, end>>  >>
    ELSE IF cut_start <= start /\ cut_end < end THEN <<  <<cut_end, end>>  >>
    ELSE IF cut_start > start /\ cut_end >= end THEN <<  <<start, cut_start>>  >>
    ELSE IF cut_start > start /\ cut_end < end
         THEN <<  <<start, cut_start>>, <<cut_end, end>>  >>
    ELSE <<>>

\* The inner loop: new_ranges for one cut over all keep_ranges, in order.
RECURSIVE NewRanges(_, _, _)
NewRanges(keep_ranges, cut_start, cut_end) ==
    IF keep_ranges = <<>> THEN <<>>
    ELSE SubtractCut(Head(keep_ranges)[1], Head(keep_ranges)[2],
                     cut_start, cut_end)
         \o NewRanges(Tail(keep_ranges), cut_start, cut_end)

\* A variant of the outer loop that snaps cut_start but forgets cut_end.
RECURSIVE ApplyCutsEndUnsnapped(_, _, _)
ApplyCutsEndUnsnapped(keep_ranges, cuts, fps) ==
    IF cuts = <<>> THEN keep_ranges
    ELSE LET cut == Head(cuts)
             cut_start == IF fps > 0 THEN snap_to_frame(cut.start, fps)
                          ELSE cut.start
             cut_end == cut.end
         IN  ApplyCutsEndUnsnapped(NewRanges(keep_ranges, cut_start, cut_end),
                                   Tail(cuts), fps)

\* The outer loop: apply each cut of the sorted list in turn, snapping its
\* endpoints first when target_fps > 0.
RECURSIVE ApplyCuts(_, _, _)
ApplyCuts(keep_ranges, cuts, fps) ==
    IF cuts = <<>> THEN keep_ranges
    ELSE LET cut == Head(cuts)
             cut_start == IF fps > 0 THEN snap_to_frame(cut.start, fps)
                          ELSE cut.start
             cut_end == IF fps > 0 THEN snap_to_frame(cut.end, fps)
                        ELSE cut.end
         IN  ApplyCuts(NewRanges(keep_ranges, cut_start, cut_end),
                       Tail(cuts), fps)

\* effective_end = trim_end if trim_end is not None else duration
EffectiveEnd(dur, tend) == IF tend # None THEN tend[1] ELSE dur

calculate_keep_segments(dur, tstart, tend, cuts, fps) ==
    LET effective_end == EffectiveEnd(dur, tend)
        s == IF fps > 0 THEN snap_to_frame(tstart, fps) ELSE tstart
        e == IF fps > 0 THEN snap_to_frame(effective_end, fps)
             ELSE effective_end
    IN  ApplyCuts(<<  <<s, e>>  >>, sorted(cuts), fps)

\* ------------------------------------------------------------ input sets
RECURSIVE SeqsUpTo(_, _)
SeqsUpTo(S, n) ==
    IF n = 0 THEN {<<>>}
    ELSE LET shorter == SeqsUpTo(S, n - 1)
         IN  shorter \cup {Append(q, x) : q \in shorter, x \in S}

\* Cut requests of any shape (start > end and start = end included).
CutsAny == [start : 0..MaxTimeAny, end : 0..MaxTimeAny]
\* Well-formed cut requests: start < end.
CutsValid == {c \in [start : 0..MaxTime, end : 0..MaxTime] : c.start < c.end}

\* The batch converter is not running.
GifIdle ==
    /\ files = <<>>
    /\ existing = {}
    /\ speed_mult = 1
    /\ valid_files = <<>>
    /\ results = <<>>
    /\ events = <<>>
    /\ invocations = <<>>
    /\ segment_files = <<>>
    /\ source_for_gif = [kind |-> "none", file |-> 0, n |-> 0]
    /\ temp_dir = FALSE
    /\ file_keep = <<>>
    /\ temp_files = {}
    /\ exit_code = None

\* No worker pool exists.
PoolIdle ==
    /\ parallel_jobs = 1
    /\ split_method = "duration"
    /\ split_value = 1
    /\ workers = 0
    /\ jobs = <<>>
    /\ outputs = <<>>
    /\ errors = <<>>

\* The settings of a run that gives no per-file parameter: the defaults of
\* settings.get in the two run_batch functions.
DefaultSettings ==
    [fps_mode |-> "single", fps_value |-> 30, fps_values |-> <<>>,
     sample_rate_mode |-> "single", sample_rate |-> 48000,
     sample_rates |-> <<>>]

\* The process was started without arguments and a configuration object
\* is piped to its standard input.
MainIdle ==
    /\ argv = <<"script">>
    /\ config_file = "absent"
    /\ stdin = "object"

\* build_scale_filter is not under study.
ScaleIdle ==
    /\ resolution_config = [mode |-> "original"]
    /\ source_width = 0
    /\ source_height = 0
    /\ scale_filter = None

\* No worker runs process_single_file under study.
WorkerIdle ==
    /\ info = None
    /\ video_result = None
    /\ audio_result = None
    /\ audio_method = 0
    /\ single_result = None

\* No segment arithmetic is under study.
TaskIdle ==
    /\ segment_tasks = <<>>
    /\ summary = None

ExtraIdle ==
    /\ settings = DefaultSettings
    /\ MainIdle
    /\ ScaleIdle
    /\ WorkerIdle
    /\ TaskIdle

\* ------------------------------------------ specification: the calculator
\* Arbitrary inputs, as an arbitrary JSON configuration can carry them.
InitKeepAny ==
    /\ pc = "call"
    /\ duration = MaxTimeAny
    /\ trim_start \in 0..MaxTimeAny
    /\ trim_end \in {None} \cup {Some(t) : t \in 0..MaxTimeAny}
    /\ cut_segments \in SeqsUpTo(CutsAny, MaxCuts)
    /\ target_fps \in FpsValues
    /\ keep_segments = <<>>
    /\ GifIdle
    /\ PoolIdle
    /\ ExtraIdle

\* Well-formed inputs: 0 <= trim_start < trim_end <= duration, cuts with
\* start < end.
InitKeepValid ==
    /\ pc = "call"
    /\ duration = MaxTime
    /\ trim_start \in 0..(MaxTime - 1)
    /\ trim_end \in {None} \cup {Some(t) : t \in (trim_start + 1)..MaxTime}
    /\ cut_segments \in SeqsUpTo(CutsValid, MaxCuts)
    /\ target_fps \in FpsValues
    /\ keep_segments = <<>>
    /\ GifIdle
    /\ PoolIdle
    /\ ExtraIdle

CallCalculateKeepSegments ==
    /\ pc = "call"
    /\ keep_segments' = calculate_keep_segments(duration, trim_start, trim_end,
                                                cut_segments, target_fps)
    /\ pc' = "returned"
    /\ UNCHANGED <<calcVars, gifVars, poolVars, extraVars>>

NextKeep == CallCalculateKeepSegments

SpecKeepAny == InitKeepAny /\ [][NextKeep]_vars
SpecKeepValid == InitKeepValid /\ [][NextKeep]_vars

\* ======================================================================
\* video_to_gif.py: run_batch and process_video_to_gif
\* ======================================================================
\* Paths of the input list: directory and Path(p).name.
Paths == { [dir |-> "a", name |-> "x.mp4"],
           [dir |-> "b", name |-> "x.mp4"],
           [dir |-> "a", name |-> "y.mp4"] }
\* config cut_segments: no cut, everything cut, one cut, two cuts given in
\* descending order.
GifCutLists ==
    { <<>>,
      << [start |-> 0, end |-> MaxTime] >>,
      << [start |-> 1, end |-> 2] >>,
      << [start |-> 3, end |-> 4], [start |-> 1, end |-> 2] >> }
\* config frame_rate: one frame every two ticks, or one per tick.
GifFrameRates == {3, TicksPerSecond}
\* config speed_multiplier.
SpeedValues == {0, 1, 2}
\* info['duration'] as probed, in ticks: a short and a long source.
GifDurations == {2, MaxTime}
\* probe_video: metadata, an exception, or no video stream.
ProbeOutcomes == {"ok", "raise", "no_video"}

\* f'{x:.6f}': the time x (ticks) as a whole number of microseconds.
Fmt6(x) == round(x * 1000000, TicksPerSecond)

\* list.insert(i, x) with a 0-based index.
Insert(s, i, x) == SubSeq(s, 1, i) \o <<x>> \o SubSeq(s, i + 1, Len(s))

\* A file the tool reads or writes: the source of file number `file`, or
\* an entry of its temporary directory.
Ref(kind, file, n) == [kind |-> kind, file |-> file, n |-> n]
NoRef == Ref("none", 0, 0)

\* ---- events (emit_event)
ErrorEvent(msg) == [event |-> "error", message |-> msg]
ErrorAbout(msg, path) == [event |-> "error", message |-> msg, path |-> path]
StartEvent(n) == [event |-> "start", total_files |-> n]
ProgressEvent(i, n, name) ==
    [event |-> "progress", current_file |-> i, total_files |-> n,
     filename |-> name]
FileStartEvent(id, path) == [event |-> "file_start", file |-> id, path |-> path]
FileErrorEvent(id, err) == [event |-> "file_error", file |-> id, error |-> err]
FileCompleteEvent(id, out) ==
    [event |-> "file_complete", file |-> id, success |-> TRUE, output |-> out]
CompleteEvent(n, ok, bad, res) ==
    [event |-> "complete", total_files |-> n, successful |-> ok,
     failed |-> bad, results |-> res]

\* ---- results of process_video_to_gif
FailedResult(id, err) == [success |-> FALSE, file |-> id, error |-> err]
SuccessResult(id, out) == [success |-> TRUE, file |-> id, output |-> out]

\* ---- filters
Filter(name, args) == [name |-> name, args |-> args]
\* trim=start=S:duration=D,setpts=PTS-STARTPTS for the only keep segment.
TrimFilter(keep) ==
    LET start == keep[1][1]
        end == keep[1][2]
        seg_duration == end - start
    IN  Filter("trim", <<Fmt6(start), Fmt6(seg_duration)>>)
\* speed_filter: setpts={1.0/speed_mult}*PTS, or "" when speed_mult is 1.0.
SpeedFilter(speed) ==
    IF speed # 1 THEN Filter("setpts", <<1, speed>>) ELSE Filter("", <<>>)
FpsFilter(frame_rate) == Filter("fps", <<frame_rate>>)
ScaleFilter == Filter("scale", <<>>)

\* A variant of the emptiness test that is never true ("is None").
NoContentRemainingIsNone(keep) == FALSE

\* if not keep_segments: nothing is left to encode.
NoContentRemaining(keep) == keep = <<>>

\* A variant of the strategy test that takes the direct path for two
\* segments as well.
UsesExtractAndJoinOverTwo(keep) == Len(keep) > 2

\* len(keep_segments) > 1: extract and concat, else trim in the filter.
UsesExtractAndJoin(keep) == Len(keep) > 1

\* The filter chain of the palette pass.
PaletteFilters(keep, speed, frame_rate) ==
    LET speed_filter == SpeedFilter(speed)
    IN  IF UsesExtractAndJoin(keep)
        THEN LET filters == <<FpsFilter(frame_rate), ScaleFilter>>
                 with_speed == IF speed_filter.name # ""
                               THEN Insert(filters, 0, speed_filter)
                               ELSE filters
             IN  Append(with_speed, Filter("palettegen", <<>>))
        ELSE LET filters == <<TrimFilter(keep), FpsFilter(frame_rate),
                              ScaleFilter>>
                 with_speed == IF speed_filter.name # ""
                               THEN Insert(filters, 1, speed_filter)
                               ELSE filters
             IN  Append(with_speed, Filter("palettegen", <<>>))

\* A variant of the GIF pass that puts the speed filter first on the direct
\* path as well (index 0 instead of 1).
FilterComplexSpeedFirst(keep, speed, frame_rate) ==
    LET speed_filter == SpeedFilter(speed)
        base_filters == IF UsesExtractAndJoin(keep)
                        THEN <<FpsFilter(frame_rate), ScaleFilter>>
                        ELSE <<TrimFilter(keep), FpsFilter(frame_rate),
                               ScaleFilter>>
        with_speed == IF speed_filter.name # ""
                      THEN Insert(base_filters, 0, speed_filter)
                      ELSE base_filters
    IN  Append(with_speed, Filter("paletteuse", <<>>))

\* The filter_complex of the GIF pass: base filters, then paletteuse.
FilterComplex(keep, speed, frame_rate) ==
    LET speed_filter == SpeedFilter(speed)
    IN  IF UsesExtractAndJoin(keep)
        THEN LET base_filters == <<FpsFilter(frame_rate), ScaleFilter>>
                 with_speed == IF speed_filter.name # ""
                               THEN Insert(base_filters, 0, speed_filter)
                               ELSE base_filters
             IN  Append(with_speed, Filter("paletteuse", <<>>))
        ELSE LET base_filters == <<TrimFilter(keep), FpsFilter(frame_rate),
                                   ScaleFilter>>
                 with_speed == IF speed_filter.name # ""
                               THEN Insert(base_filters, 1, speed_filter)
                               ELSE base_filters
             IN  Append(with_speed, Filter("paletteuse", <<>>))

\* ---- command lines
Cmd(tool, file, input, output) ==
    [tool |-> tool, file |-> file, input |-> input, output |-> output,
     ss |-> None, t |-> None, filters |-> <<>>, manifest |-> <<>>,
     palette |-> NoRef, returncode |-> 0]

\* The command line as run, with the return code of the tool.
Ran(cmd, ok) == [cmd EXCEPT !.returncode = IF ok THEN 0 ELSE 1]

\* A variant of the extraction command that passes the segment end as -t.
ExtractCmdEndAsLength(file, i, start, end) ==
    [Cmd("extract", file, Ref("source", file, 0), Ref("segment", file, i))
        EXCEPT !.ss = Some(Fmt6(start)), !.t = Some(Fmt6(end))]

\* ffmpeg -i video_path -ss start -t seg_duration ... segment_{i:03d}.mp4
ExtractCmd(file, i, start, end) ==
    LET seg_duration == end - start
    IN  [Cmd("extract", file, Ref("source", file, 0), Ref("segment", file, i))
            EXCEPT !.ss = Some(Fmt6(start)), !.t = Some(Fmt6(seg_duration))]

\* concat.txt lists segment_files in order; ffmpeg -f concat ... merged.mp4
ConcatCmd(file, seg_files) ==
    [Cmd("concat", file, Ref("concat.txt", file, 0), Ref("merged", file, 0))
        EXCEPT !.manifest = seg_files]

\* ffmpeg -i source_for_gif -vf palette_filter palette.png
PaletteCmd(file, source, palette_filter) ==
    [Cmd("palettegen", file, source, Ref("palette", file, 0))
        EXCEPT !.filters = palette_filter]

\* ffmpeg -i source_for_gif -i palette.png -filter_complex ... output.gif
GifCmd(file, source, filter_complex) ==
    [Cmd("gif", file, source, Ref("output", file, 0))
        EXCEPT !.filters = filter_complex,
               !.palette = Ref("palette", file, 0)]

\* ---- the file being processed
cur == Len(results) + 1
\* A variant that takes the files from the end of the list.
video_pathFromEnd == valid_files[Len(valid_files) + 1 - cur]
video_path == valid_files[cur]
file_id == video_path.name
\* output_path: the input directory, the input stem, .gif
output_path == [dir |-> video_path.dir, name |-> video_path.name, ext |-> "gif"]

NoContent == "No video content remaining after cuts"

\* ---- input validation of run_batch
\* A variant of the validation that excludes nothing.
ValidFilesAll(fs, ex) == fs

\* valid_files: the entries for which os.path.isfile holds, in list order.
ValidFiles(fs, ex) ==
    LET IsFile(f) == f \in ex
    IN  SelectSeq(fs, IsFile)

\* One error event per entry that is not a file, in list order.
NotFoundEvents(fs, ex) ==
    LET Missing(f) == f \notin ex
        missing == SelectSeq(fs, Missing)
    IN  [i \in 1..Len(missing) |-> ErrorAbout("File not found", missing[i])]

NoValidFiles == "No valid files to process"

\* The configuration of a run, with the program at the position at.
InitGifAt(at) ==
    /\ pc = at
    /\ duration = MaxTime
    /\ trim_start = 0
    /\ trim_end = None
    /\ cut_segments \in GifCutLists
    /\ target_fps \in GifFrameRates
    /\ keep_segments = <<>>
    /\ files \in SeqsUpTo(Paths, MaxFiles)
    /\ existing \in SUBSET {files[i] : i \in 1..Len(files)}
    /\ speed_mult \in SpeedValues
    /\ valid_files = <<>>
    /\ results = <<>>
    /\ events = <<>>
    /\ invocations = <<>>
    /\ segment_files = <<>>
    /\ source_for_gif = NoRef
    /\ temp_dir = FALSE
    /\ file_keep = <<>>
    /\ temp_files = {}
    /\ exit_code = None
    /\ PoolIdle
    /\ settings = DefaultSettings
    /\ ScaleIdle
    /\ WorkerIdle
    /\ TaskIdle

\* run_batch is entered with the configuration main has read.
InitGif ==
    /\ InitGifAt("run_batch")
    /\ MainIdle

\* run_batch up to the loop: validate the files, give up or emit start.
\* Giving up is a plain return: main returns and the process ends with
\* status 0.
GifRunBatch ==
    /\ pc = "run_batch"
    /\ LET valid == ValidFiles(files, existing)
           not_found == NotFoundEvents(files, existing)
       IN  /\ valid_files' = valid
           /\ IF valid = <<>>
              THEN /\ events' = events \o not_found
                                \o <<ErrorEvent(NoValidFiles)>>
                   /\ pc' = "done"
                   /\ exit_code' = Some(0)
              ELSE /\ events' = events \o not_found
                                \o <<StartEvent(Len(valid))>>
                   /\ pc' = "loop"
                   /\ UNCHANGED exit_code
    /\ UNCHANGED <<calcVars, keep_segments, files, existing, speed_mult,
                   results, invocations, segment_files, source_for_gif,
                   temp_dir, file_keep, temp_files, poolVars, extraVars>>

\* One more file: the progress event and the file_start of
\* process_video_to_gif, up to the probe.
GifLoopNext ==
    /\ pc = "loop"
    /\ cur <= Len(valid_files)
    /\ events' = events
                 \o <<ProgressEvent(cur, Len(valid_files), file_id),
                      FileStartEvent(file_id, video_path)>>
    /\ pc' = "probe"
    /\ UNCHANGED <<calcVars, keep_segments, files, existing, speed_mult,
                   valid_files, results, invocations, segment_files,
                   source_for_gif, temp_dir, file_keep, temp_files,
                   exit_code, poolVars, extraVars>>

\* The loop is over: count and emit complete; run_batch and main return.
GifLoopComplete ==
    /\ pc = "loop"
    /\ cur > Len(valid_files)
    /\ LET successful == Cardinality({i \in 1..Len(results) : results[i].success})
           failed == Len(results) - successful
       IN  events' = Append(events,
                CompleteEvent(Len(valid_files), successful, failed, results))
    /\ pc' = "done"
    /\ exit_code' = Some(0)
    /\ UNCHANGED <<calcVars, keep_segments, files, existing, speed_mult,
                   valid_files, results, invocations, segment_files,
                   source_for_gif, temp_dir, file_keep, temp_files, poolVars, extraVars>>

\* A variant that reports every failure with one generic text.
GifFileFailsGeneric(before, err) ==
    /\ events' = events \o before
                 \o <<FileErrorEvent(file_id, "Processing failed")>>
    /\ results' = Append(results, FailedResult(file_id, "Processing failed"))
    /\ segment_files' = <<>>
    /\ source_for_gif' = NoRef
    /\ temp_dir' = FALSE
    /\ temp_files' = {}
    /\ pc' = "loop"

\* A variant that removes the temporary directory on the success path only.
GifFileFailsKeepsTemp(before, err) ==
    /\ events' = events \o before \o <<FileErrorEvent(file_id, err)>>
    /\ results' = Append(results, FailedResult(file_id, err))
    /\ segment_files' = <<>>
    /\ source_for_gif' = NoRef
    /\ UNCHANGED <<temp_dir, temp_files>>
    /\ pc' = "loop"

\* Leaving process_video_to_gif with a failure: the with block (if entered)
\* removes the temporary directory, then file_error and the failed result;
\* `before` are events emitted first.
GifFileFails(before, err) ==
    /\ events' = events \o before \o <<FileErrorEvent(file_id, err)>>
    /\ results' = Append(results, FailedResult(file_id, err))
    /\ segment_files' = <<>>
    /\ source_for_gif' = NoRef
    /\ temp_dir' = FALSE
    /\ temp_files' = {}
    /\ pc' = "loop"

\* process_video_to_gif from the probe to the entry of the temporary
\* directory: probe, read the configuration, compute the keep segments,
\* build the speed filter, choose the strategy.
GifProbe ==
    /\ pc = "probe"
    /\ \E outcome \in ProbeOutcomes :
          IF outcome # "ok"
          THEN /\ GifFileFails(
                     IF outcome = "raise"
                     THEN <<ErrorAbout("Failed to probe", video_path)>>
                     ELSE <<>>,
                     "Failed to probe video")
               /\ file_keep' = Append(file_keep, None)
               /\ UNCHANGED <<duration, keep_segments, invocations, exit_code>>
          ELSE \E probed \in GifDurations :
               LET keep == calculate_keep_segments(probed, trim_start,
                               trim_end, cut_segments, target_fps)
               IN  /\ duration' = probed
                   /\ keep_segments' = keep
                   /\ file_keep' = Append(file_keep, Some(keep))
                   /\ UNCHANGED invocations
                   /\ IF NoContentRemaining(keep)
                      THEN GifFileFails(<<>>, NoContent) /\ UNCHANGED exit_code
                      ELSE IF speed_mult = 0
                      THEN \* 1.0/speed_mult raises ZeroDivisionError
                           \* outside the try block: traceback, status 1
                           /\ pc' = "crashed"
                           /\ exit_code' = Some(1)
                           /\ UNCHANGED <<events, results, segment_files,
                                          source_for_gif, temp_dir, temp_files>>
                      ELSE /\ temp_dir' = TRUE
                           /\ temp_files' = {}
                           /\ segment_files' = <<>>
                           /\ IF UsesExtractAndJoin(keep)
                              THEN /\ pc' = "extract"
                                   /\ source_for_gif' = NoRef
                              ELSE /\ pc' = "palette"
                                   /\ source_for_gif' = Ref("source", cur, 0)
                           /\ UNCHANGED <<events, results, exit_code>>
    /\ UNCHANGED <<trim_start, trim_end, cut_segments, target_fps, files,
                   existing, speed_mult, valid_files, poolVars, extraVars>>

\* One iteration of the extraction loop; after the last one the concat
\* manifest is written.
GifExtract ==
    /\ pc = "extract"
    /\ LET i == Len(segment_files)
           start == keep_segments[i + 1][1]
           end == keep_segments[i + 1][2]
           cmd == ExtractCmd(cur, i, start, end)
       IN  \E ok \in BOOLEAN :
              /\ invocations' = Append(invocations, Ran(cmd, ok))
              /\ IF ok
                 THEN /\ segment_files' = Append(segment_files, cmd.output)
                      /\ temp_files' =
                           (temp_files \cup {cmd.output})
                           \cup (IF i + 1 = Len(keep_segments)
                                 THEN {Ref("concat.txt", cur, 0)} ELSE {})
                      /\ pc' = IF i + 1 = Len(keep_segments)
                               THEN "concat" ELSE "extract"
                      /\ UNCHANGED <<events, results, source_for_gif, temp_dir>>
                 ELSE GifFileFails(<<>>, "Segment extraction failed")
    /\ UNCHANGED <<calcVars, keep_segments, files, existing, speed_mult,
                   valid_files, file_keep, exit_code, poolVars, extraVars>>

\* The concat invocation over concat.txt.
GifConcat ==
    /\ pc = "concat"
    /\ LET cmd == ConcatCmd(cur, segment_files)
       IN  \E ok \in BOOLEAN :
              /\ invocations' = Append(invocations, Ran(cmd, ok))
              /\ IF ok
                 THEN /\ source_for_gif' = cmd.output
                      /\ temp_files' = temp_files \cup {cmd.output}
                      /\ pc' = "palette"
                      /\ UNCHANGED <<events, results, segment_files, temp_dir>>
                 ELSE GifFileFails(<<>>, "Concat failed")
    /\ UNCHANGED <<calcVars, keep_segments, files, existing, speed_mult,
                   valid_files, file_keep, exit_code, poolVars, extraVars>>

\* The palette pass.
GifPalette ==
    /\ pc = "palette"
    /\ LET cmd == PaletteCmd(cur, source_for_gif,
                     PaletteFilters(keep_segments, speed_mult, target_fps))
       IN  \E ok \in BOOLEAN :
              /\ invocations' = Append(invocations, Ran(cmd, ok))
              /\ IF ok
                 THEN /\ temp_files' = temp_files \cup {cmd.output}
                      /\ pc' = "gif"
                      /\ UNCHANGED <<events, results, segment_files,
                                     source_for_gif, temp_dir>>
                 ELSE GifFileFails(<<>>, "Palette generation failed")
    /\ UNCHANGED <<calcVars, keep_segments, files, existing, speed_mult,
                   valid_files, file_keep, exit_code, poolVars, extraVars>>

\* The GIF pass, file_complete and the successful result; the with block
\* removes the temporary directory before the function returns.
GifCreate ==
    /\ pc = "gif"
    /\ LET cmd == GifCmd(cur, source_for_gif,
                     FilterComplex(keep_segments, speed_mult, target_fps))
       IN  \E ok \in BOOLEAN :
              /\ invocations' = Append(invocations, Ran(cmd, ok))
              /\ IF ok
                 THEN /\ events' = Append(events,
                                      FileCompleteEvent(file_id, output_path))
                      /\ results' = Append(results,
                                      SuccessResult(file_id, output_path))
                      /\ segment_files' = <<>>
                      /\ source_for_gif' = NoRef
                      /\ temp_dir' = FALSE
                      /\ temp_files' = {}
                      /\ pc' = "loop"
                 ELSE GifFileFails(<<>>, "GIF creation failed")
    /\ UNCHANGED <<calcVars, keep_segments, files, existing, speed_mult,
                   valid_files, file_keep, exit_code, poolVars, extraVars>>

NextGif ==
    \/ GifRunBatch
    \/ GifLoopNext
    \/ GifLoopComplete
    \/ GifProbe
    \/ GifExtract
    \/ GifConcat
    \/ GifPalette
    \/ GifCreate

SpecGif == InitGif /\ [][NextGif]_vars

\* ======================================================================
\* video_splitter_batch.py: run_batch / process_video_file
\* ======================================================================
\* Most segments of one file in the specification of a single pool.
MaxSegments == 4

\* (split_method, split_value) of the batch runs: at most two segments per
\* file, or a zero split value.
SplitBatchConfigs ==
    { <<"duration", MaxTime - 2>>, <<"segments", 2>>, <<"duration", 0>> }
\* parallel_jobs of the batch runs.
ParallelValues == {0, 1, 2}
\* info['duration'] of a probed file.
SplitDurations == {MaxTime}
\* How split_single_segment can end: return code 0, another return code,
\* an exception inside its try block.
SegmentOutcomes == {"ok", "nonzero", "raise"}

Min(a, b) == IF a <= b THEN a ELSE b
\* math.ceil(a / b) for a >= 0, b > 0
Ceil(a, b) == (a + b - 1) \div b

\* num_segments of process_video_file (split_value is not zero).
NumSegments(method, value, dur) ==
    IF method = "duration" THEN Ceil(dur, value) ELSE value

\* A variant of the pool size that ignores parallel_jobs.
PoolSizeAllTasks(par_jobs, num_tasks) == num_tasks

\* workers = min(parallel_jobs, len(segment_tasks))
PoolSize(par_jobs, num_tasks) == Min(par_jobs, num_tasks)

\* A variant in which an entry of the override map is used whatever the
\* mode is.
ResolveParamIgnoresMode(mode, values, filename, default) ==
    IF filename \in DOMAIN values THEN values[filename] ELSE default

\* The parameter run_batch uses for one file: the entry of the override
\* map if the mode is per_file and the map has the file's name, the
\* run-wide value otherwise.
ResolveParam(mode, values, filename, default) ==
    IF mode = "per_file" /\ filename \in DOMAIN values
    THEN values[filename]
    ELSE default

\* ---- futures
\* A future of the executor: the file and the segment (or 0) its task is
\* about, its state (queued, running, finished, collected) and, once
\* finished, what future.result() gives.
NoResult == [success |-> FALSE, pending |-> TRUE]
Future(f, seg, rate) ==
    [file |-> f, segment |-> seg, rate |-> rate, state |-> "queued",
     result |-> NoResult]

InState(st) == {j \in 1..Len(jobs) : jobs[j].state = st}
\* The futures of the executor in use: those of the file being processed.
OfFile(f) == {j \in 1..Len(jobs) : jobs[j].file = f}

\* A variant of the result that does not tell which segment it is about.
SegmentResultAnonymous(id, seg, total, out, outcome) ==
    IF outcome = "ok"
    THEN [success |-> TRUE, file_id |-> id, segment |-> 0,
          total |-> total, output |-> out]
    ELSE [success |-> FALSE, file_id |-> id, segment |-> 0,
          total |-> total,
          error |-> IF outcome = "nonzero" THEN "stderr" ELSE "exception"]

\* The dict split_single_segment returns.
SegmentResult(id, seg, total, out, outcome) ==
    IF outcome = "ok"
    THEN [success |-> TRUE, file_id |-> id, segment |-> seg,
          total |-> total, output |-> out]
    ELSE [success |-> FALSE, file_id |-> id, segment |-> seg,
          total |-> total,
          error |-> IF outcome = "nonzero" THEN "stderr" ELSE "exception"]

\* ---- events and results of the splitter
SplitStartEvent(n) ==
    [event |-> "start", total_files |-> n, split_method |-> split_method,
     split_value |-> split_value, parallel_jobs |-> parallel_jobs]
SegmentCompleteEvent(res) ==
    [event |-> "segment_complete", file |-> res.file_id,
     segment |-> res.segment, total |-> res.total, output |-> res.output]
SegmentErrorEvent(res) ==
    [event |-> "file_error", file |-> res.file_id, segment |-> res.segment,
     error |-> res.error]
SplitFileCompleteEvent(id, dir, outs, errs, total) ==
    [event |-> "file_complete", file |-> id, success |-> (errs = <<>>),
     segments_completed |-> Len(outs), segments_total |-> total,
     output_dir |-> dir]
SplitFileResult(id, dir, outs, errs) ==
    [success |-> (errs = <<>>), file |-> id, output_dir |-> dir,
     segments |-> Len(outs), errors |-> errs]

\* output_dir: the input directory, the input stem, _parts
OutputDir(path) == [dir |-> path.dir, parts |-> path.name]
\* output_file: output_dir, the input stem, _part{i+1:03d}, the extension
OutputFile(path, seg) == [dir |-> path.dir, parts |-> path.name, part |-> seg]

\* Lists without a repeated entry, of length at most n.
DistinctSeqsUpTo(S, n) ==
    {s \in SeqsUpTo(S, n) : \A i, j \in 1..Len(s) : s[i] = s[j] => i = j}

\* ---- the specifications of the splitter
SplitInitCommon(at) ==
    /\ pc = at
    /\ duration = 0
    /\ trim_start = 0
    /\ trim_end = None
    /\ cut_segments = <<>>
    /\ target_fps = 0
    /\ keep_segments = <<>>
    /\ speed_mult = 1
    /\ valid_files = <<>>
    /\ results = <<>>
    /\ events = <<>>
    /\ invocations = <<>>
    /\ segment_files = <<>>
    /\ source_for_gif = NoRef
    /\ temp_dir = FALSE
    /\ file_keep = <<>>
    /\ temp_files = {}
    /\ exit_code = None
    /\ workers = 0
    /\ jobs = <<>>
    /\ outputs = <<>>
    /\ errors = <<>>
    /\ ScaleIdle
    /\ WorkerIdle
    /\ TaskIdle

\* A batch of files, each split into at most two segments, with the
\* program at the position at.
InitSplitAt(at) ==
    /\ SplitInitCommon(at)
    /\ files \in DistinctSeqsUpTo(Paths, MaxFiles)
    /\ existing \in SUBSET {files[i] : i \in 1..Len(files)}
    /\ \E c \in SplitBatchConfigs : split_method = c[1] /\ split_value = c[2]
    /\ parallel_jobs \in ParallelValues

InitSplit ==
    /\ InitSplitAt("split_run_batch")
    /\ settings = DefaultSettings
    /\ MainIdle

\* One file split into up to MaxSegments segments.
InitSplitPool ==
    /\ SplitInitCommon("split_run_batch")
    /\ settings = DefaultSettings
    /\ MainIdle
    /\ \E p \in Paths : files = <<p>> /\ existing = {p}
    /\ split_method = "segments"
    /\ split_value \in 1..MaxSegments
    /\ parallel_jobs \in 1..3

\* run_batch up to the loop: validate the files, give up or emit start.
SplitRunBatch ==
    /\ pc = "split_run_batch"
    /\ LET valid == ValidFiles(files, existing)
           not_found == NotFoundEvents(files, existing)
       IN  /\ valid_files' = valid
           /\ IF valid = <<>>
              THEN /\ events' = events \o not_found
                                \o <<ErrorEvent(NoValidFiles)>>
                   /\ pc' = "split_done"
                   /\ exit_code' = Some(0)
              ELSE /\ events' = events \o not_found
                                \o <<SplitStartEvent(Len(valid))>>
                   /\ pc' = "split_loop"
                   /\ UNCHANGED exit_code
    /\ UNCHANGED <<calcVars, keep_segments, files, existing, speed_mult,
                   results, invocations, segment_files, source_for_gif,
                   temp_dir, file_keep, temp_files, poolVars, extraVars>>

\* One more file: the progress event and the file_start of
\* process_video_file, up to the probe.
SplitLoopNext ==
    /\ pc = "split_loop"
    /\ cur <= Len(valid_files)
    /\ events' = events
                 \o <<ProgressEvent(cur, Len(valid_files), file_id),
                      FileStartEvent(file_id, video_path)>>
    /\ target_fps' = ResolveParam(settings.fps_mode, settings.fps_values,
                                  file_id, settings.fps_value)
    /\ pc' = "split_probe"
    /\ UNCHANGED <<duration, trim_start, trim_end, cut_segments,
                   keep_segments, files, existing, speed_mult,
                   valid_files, results, invocations, segment_files,
                   source_for_gif, temp_dir, file_keep, temp_files,
                   exit_code, poolVars, extraVars>>

\* The loop is over: count and emit complete; run_batch and main return.
SplitLoopComplete ==
    /\ pc = "split_loop"
    /\ cur > Len(valid_files)
    /\ LET successful == Cardinality({i \in 1..Len(results) : results[i].success})
           failed == Len(results) - successful
       IN  events' = Append(events,
                CompleteEvent(Len(valid_files), successful, failed, results))
    /\ pc' = "split_done"
    /\ exit_code' = Some(0)
    /\ UNCHANGED <<calcVars, keep_segments, files, existing, speed_mult,
                   valid_files, results, invocations, segment_files,
                   source_for_gif, temp_dir, file_keep, temp_files, poolVars, extraVars>>

\* A variant in which the loop over the futures ends with the first result.
AllCollectedFirst(f) == \E j \in OfFile(f) : jobs[j].state = "collected"

\* as_completed is exhausted: every future of the file has been handled.
AllCollected(f) == \A j \in OfFile(f) : jobs[j].state = "collected"

\* process_video_file from the probe to the submission of the segment
\* tasks: probe, segment parameters, the tasks, the executor, the submits.
SplitProbe ==
    /\ pc = "split_probe"
    /\ \E outcome \in ProbeOutcomes :
          IF outcome # "ok"
          THEN /\ events' = events
                    \o (IF outcome = "raise"
                        THEN <<ErrorAbout("Failed to probe", video_path)>>
                        ELSE <<>>)
                    \o <<FileErrorEvent(file_id, "Failed to probe video")>>
               /\ results' = Append(results,
                                FailedResult(file_id, "Failed to probe video"))
               /\ pc' = "split_loop"
               /\ UNCHANGED <<duration, workers, jobs, exit_code>>
          ELSE \E probed \in SplitDurations :
               /\ duration' = probed
               /\ UNCHANGED <<events, results>>
               /\ IF split_value = 0
                  THEN \* duration / 0 raises ZeroDivisionError: traceback,
                       \* status 1
                       /\ pc' = "split_crashed"
                       /\ exit_code' = Some(1)
                       /\ UNCHANGED <<workers, jobs>>
                  ELSE LET num_segments ==
                              NumSegments(split_method, split_value, probed)
                           size == PoolSize(parallel_jobs, num_segments)
                       IN  IF size <= 0
                           THEN \* ProcessPoolExecutor raises ValueError
                                /\ pc' = "split_crashed"
                                /\ exit_code' = Some(1)
                                /\ UNCHANGED <<workers, jobs>>
                           ELSE /\ workers' = size
                                /\ jobs' = jobs \o
                                     [i \in 1..num_segments |->
                                         Future(cur, i, target_fps)]
                                /\ pc' = "split_pool"
                                /\ UNCHANGED exit_code
    /\ UNCHANGED <<trim_start, trim_end, cut_segments, target_fps,
                   keep_segments, files, existing, speed_mult, valid_files,
                   invocations, segment_files, source_for_gif, temp_dir,
                   file_keep, temp_files, parallel_jobs, split_method,
                   split_value, outputs, errors, extraVars>>

\* A worker process of the pool takes the next task of the call queue.
SplitStartJob ==
    /\ pc = "split_pool"
    /\ InState("queued") # {}
    /\ Cardinality(InState("running")) < workers
    /\ LET j == CHOOSE k \in InState("queued") :
                    \A m \in InState("queued") : k <= m
       IN  jobs' = [jobs EXCEPT ![j].state = "running"]
    /\ UNCHANGED <<pc, calcVars, keep_segments, gifVars, parallel_jobs,
                   split_method, split_value, workers, outputs, errors, extraVars>>

\* split_single_segment returns in its worker process.
SplitFinishJob ==
    /\ pc = "split_pool"
    /\ \E j \in InState("running"), outcome \in SegmentOutcomes :
          jobs' = [jobs EXCEPT
                     ![j].state = "finished",
                     ![j].result =
                        SegmentResult(file_id, jobs[j].segment,
                                      Cardinality(OfFile(cur)),
                                      OutputFile(video_path, jobs[j].segment),
                                      outcome)]
    /\ UNCHANGED <<pc, calcVars, keep_segments, gifVars, parallel_jobs,
                   split_method, split_value, workers, outputs, errors, extraVars>>

\* One iteration of the loop over as_completed: a finished future is
\* handed out, its result counted and reported.
SplitCollect ==
    /\ pc = "split_pool"
    /\ \E j \in InState("finished") :
          LET result == jobs[j].result
          IN  /\ jobs' = [jobs EXCEPT ![j].state = "collected"]
              /\ IF result.success
                 THEN /\ outputs' = Append(outputs, result.output)
                      /\ events' = Append(events, SegmentCompleteEvent(result))
                      /\ UNCHANGED errors
                 ELSE /\ errors' = Append(errors, result.error)
                      /\ events' = Append(events, SegmentErrorEvent(result))
                      /\ UNCHANGED outputs
    /\ UNCHANGED <<pc, calcVars, keep_segments, files, existing, speed_mult,
                   valid_files, results, invocations, segment_files,
                   source_for_gif, temp_dir, file_keep, temp_files, exit_code,
                   parallel_jobs, split_method, split_value, workers, extraVars>>

\* The loop over the futures is over and the executor is shut down:
\* file_complete and the result of process_video_file.
SplitFileComplete ==
    /\ pc = "split_pool"
    /\ AllCollected(cur)
    /\ events' = Append(events,
          SplitFileCompleteEvent(file_id, OutputDir(video_path), outputs,
                                 errors, Cardinality(OfFile(cur))))
    /\ results' = Append(results,
          SplitFileResult(file_id, OutputDir(video_path), outputs, errors))
    /\ workers' = 0
    /\ outputs' = <<>>
    /\ errors' = <<>>
    /\ pc' = "split_loop"
    /\ UNCHANGED <<calcVars, keep_segments, files, existing, speed_mult,
                   valid_files, invocations, segment_files, source_for_gif,
                   temp_dir, file_keep, temp_files, exit_code, parallel_jobs,
                   split_method, split_value, jobs, extraVars>>

NextSplit ==
    \/ SplitRunBatch
    \/ SplitLoopNext
    \/ SplitLoopComplete
    \/ SplitProbe
    \/ SplitStartJob
    \/ SplitFinishJob
    \/ SplitCollect
    \/ SplitFileComplete

SpecSplit == InitSplit /\ [][NextSplit]_vars
SpecSplitPool == InitSplitPool /\ [][NextSplit]_vars

\* ======================================================================
\* video_audio_separator_batch.py: run_batch / process_single_file
\* ======================================================================
\* How process_single_file can go: both streams extracted; no audio stream
\* and the video extracted; the probe raises (probe_video reports it and
\* returns None); the probe finds no video stream; the video extraction
\* fails; every audio method fails; an exception leaves the function.
SepOutcomes == {"ok", "no_audio", "probe_raise", "no_video", "video_fails",
                "audio_fails", "raises"}

\* output_dir: the input directory, the input stem, _separated
SepOutputDir(path) == [dir |-> path.dir, separated |-> path.name]

\* The dicts of extract_video_stream and extract_audio_stream.
StreamResult(id, stream, out, ok) ==
    IF ok
    THEN [success |-> TRUE, file_id |-> id, stream |-> stream, output |-> out]
    ELSE [success |-> FALSE, file_id |-> id, stream |-> stream,
          error |-> IF stream = "video" THEN "stderr"
                    ELSE "All audio extraction methods failed"]
SkippedAudio == [success |-> TRUE, skipped |-> TRUE, reason |-> "No audio stream"]

\* What future.result() gives for process_single_file: its dict, or the
\* exception that left it.
ProcessSingleFile(path, outcome) ==
    LET id == path.name
        dir == SepOutputDir(path)
        video == StreamResult(id, "video", [dir |-> dir, stream |-> "video"],
                              outcome # "video_fails")
        audio == IF outcome = "no_audio" THEN SkippedAudio
                 ELSE StreamResult(id, "audio",
                                   [dir |-> dir, stream |-> "audio"],
                                   outcome # "audio_fails")
    IN  CASE outcome \in {"probe_raise", "no_video"} ->
               [success |-> FALSE, file |-> id, error |-> "Failed to probe video"]
          [] outcome = "raises" ->
               [success |-> FALSE, raised |-> "exception"]
          [] OTHER ->
               [file |-> id, output_dir |-> dir, video |-> video,
                audio |-> audio,
                success |-> video.success /\ audio.success]

Raised(result) == "raised" \in DOMAIN result

\* ---- events of the separator
SepStartEvent(n) ==
    [event |-> "start", total_files |-> n, parallel_jobs |-> parallel_jobs]
SepFileCompleteEvent(id, result, completed, n) ==
    [event |-> "file_complete", file |-> id, success |-> TRUE,
     output_dir |-> result.output_dir, video |-> result.video,
     audio |-> result.audio, progress |-> <<completed, n>>]
\* result.get("video"), result.get("audio"), result.get("error", ...)
SepFileErrorEvent(id, result) ==
    [event |-> "file_error", file |-> id,
     video |-> IF "video" \in DOMAIN result THEN Some(result.video) ELSE None,
     audio |-> IF "audio" \in DOMAIN result THEN Some(result.audio) ELSE None,
     error |-> IF "error" \in DOMAIN result THEN result.error
               ELSE "Unknown error"]

InitSepAt(at) ==
    /\ pc = at
    /\ duration = 0
    /\ trim_start = 0
    /\ trim_end = None
    /\ cut_segments = <<>>
    /\ target_fps = 0
    /\ keep_segments = <<>>
    /\ files \in DistinctSeqsUpTo(Paths, MaxFiles)
    /\ existing \in SUBSET {files[i] : i \in 1..Len(files)}
    /\ speed_mult = 1
    /\ valid_files = <<>>
    /\ results = <<>>
    /\ events = <<>>
    /\ invocations = <<>>
    /\ segment_files = <<>>
    /\ source_for_gif = NoRef
    /\ temp_dir = FALSE
    /\ file_keep = <<>>
    /\ temp_files = {}
    /\ exit_code = None
    /\ parallel_jobs \in ParallelValues
    /\ split_method = "duration"
    /\ split_value = 1
    /\ workers = 0
    /\ jobs = <<>>
    /\ outputs = <<>>
    /\ errors = <<>>
    /\ ScaleIdle
    /\ WorkerIdle
    /\ TaskIdle

InitSep ==
    /\ InitSepAt("sep_run_batch")
    /\ settings = DefaultSettings
    /\ MainIdle

\* run_batch up to the loop over as_completed: validate the files, give up
\* or emit start, build the tasks, create the executor, submit every task.
SepRunBatch ==
    /\ pc = "sep_run_batch"
    /\ LET valid == ValidFiles(files, existing)
           not_found == NotFoundEvents(files, existing)
       IN  /\ valid_files' = valid
           /\ IF valid = <<>>
              THEN /\ events' = events \o not_found
                                \o <<ErrorEvent(NoValidFiles)>>
                   /\ pc' = "sep_done"
                   /\ exit_code' = Some(0)
                   /\ UNCHANGED <<workers, jobs>>
              ELSE /\ events' = events \o not_found
                                \o <<SepStartEvent(Len(valid))>>
                   /\ IF parallel_jobs <= 0
                      THEN \* ProcessPoolExecutor raises ValueError:
                           \* traceback, status 1
                           /\ pc' = "sep_crashed"
                           /\ exit_code' = Some(1)
                           /\ UNCHANGED <<workers, jobs>>
                      ELSE /\ workers' = parallel_jobs
                           /\ jobs' = [f \in 1..Len(valid) |->
                                 Future(f, 0,
                                     ResolveParam(settings.sample_rate_mode,
                                         settings.sample_rates,
                                         valid[f].name,
                                         settings.sample_rate))]
                           /\ pc' = "sep_pool"
                           /\ UNCHANGED exit_code
    /\ UNCHANGED <<calcVars, keep_segments, files, existing, speed_mult,
                   results, invocations, segment_files, source_for_gif,
                   temp_dir, file_keep, temp_files, parallel_jobs,
                   split_method, split_value, outputs, errors, extraVars>>

\* A worker process of the pool takes the next task of the call queue.
SepStartJob ==
    /\ pc = "sep_pool"
    /\ InState("queued") # {}
    /\ Cardinality(InState("running")) < workers
    /\ LET j == CHOOSE k \in InState("queued") :
                    \A m \in InState("queued") : k <= m
       IN  jobs' = [jobs EXCEPT ![j].state = "running"]
    /\ UNCHANGED <<pc, calcVars, keep_segments, gifVars, parallel_jobs,
                   split_method, split_value, workers, outputs, errors, extraVars>>

\* process_single_file ends in its worker process, whatever the main
\* process is doing; a probe that raised has written its error event to the
\* shared standard output.
SepFinishJob ==
    /\ pc \in {"sep_pool", "sep_done"}
    /\ \E j \in InState("running"), outcome \in SepOutcomes :
          /\ jobs' = [jobs EXCEPT
                        ![j].state = "finished",
                        ![j].result =
                           ProcessSingleFile(valid_files[jobs[j].file], outcome)]
          /\ events' = IF outcome = "probe_raise"
                       THEN Append(events,
                               ErrorAbout("Failed to probe",
                                          valid_files[jobs[j].file]))
                       ELSE events
    /\ UNCHANGED <<pc, calcVars, keep_segments, files, existing, speed_mult,
                   valid_files, results, invocations, segment_files,
                   source_for_gif, temp_dir, file_keep, temp_files, exit_code,
                   parallel_jobs, split_method, split_value, workers,
                   outputs, errors, extraVars>>

\* One iteration of the loop over as_completed: a finished future is
\* handed out, its result appended to results and reported.
SepCollect ==
    /\ pc = "sep_pool"
    /\ \E j \in InState("finished") :
          LET result == jobs[j].result
              id == valid_files[jobs[j].file].name
              completed == Cardinality(InState("collected")) + 1
          IN  /\ jobs' = [jobs EXCEPT ![j].state = "collected"]
              /\ IF Raised(result)
                 THEN /\ events' = Append(events,
                                      FileErrorEvent(id, result.raised))
                      /\ results' = Append(results,
                                      FailedResult(id, result.raised))
                 ELSE /\ results' = Append(results, result)
                      /\ events' = Append(events,
                            IF result.success
                            THEN SepFileCompleteEvent(id, result, completed,
                                                      Len(valid_files))
                            ELSE SepFileErrorEvent(id, result))
    /\ UNCHANGED <<pc, calcVars, keep_segments, files, existing, speed_mult,
                   valid_files, invocations, segment_files, source_for_gif,
                   temp_dir, file_keep, temp_files, exit_code, parallel_jobs,
                   split_method, split_value, workers, outputs, errors, extraVars>>

\* A variant in which the main process stops waiting once every task has
\* been taken by a worker.
SepAllStarted == \A j \in 1..Len(jobs) : jobs[j].state # "queued"

\* as_completed is exhausted: every future has been handled.
SepAllCollected == \A j \in 1..Len(jobs) : jobs[j].state = "collected"

\* The loop over the futures is over and the executor is shut down: count
\* and emit complete; run_batch and main return.
SepComplete ==
    /\ pc = "sep_pool"
    /\ SepAllCollected
    /\ LET successful == Cardinality({i \in 1..Len(results) : results[i].success})
           failed == Len(results) - successful
       IN  events' = Append(events,
                CompleteEvent(Len(valid_files), successful, failed, results))
    /\ workers' = 0
    /\ pc' = "sep_done"
    /\ exit_code' = Some(0)
    /\ UNCHANGED <<calcVars, keep_segments, files, existing, speed_mult,
                   valid_files, results, invocations, segment_files,
                   source_for_gif, temp_dir, file_keep, temp_files,
                   parallel_jobs, split_method, split_value, jobs, outputs,
                   errors, extraVars>>

NextSep ==
    \/ SepRunBatch
    \/ SepStartJob
    \/ SepFinishJob
    \/ SepCollect
    \/ SepComplete

SpecSep == InitSep /\ [][NextSep]_vars

\* ======================================================================
\* The three batch operations, each with a few configurations
\* ======================================================================
InitBatch ==
    \/ /\ InitGif
       /\ target_fps = TicksPerSecond
       /\ Len(cut_segments) = 1
       /\ speed_mult \in {0, 1}
    \/ /\ InitSplit
       /\ split_method = "duration"
    \/ InitSep

NextBatch == NextGif \/ NextSplit \/ NextSep

SpecBatch == InitBatch /\ [][NextBatch]_vars

\* The same runs when the process and its workers keep being scheduled and
\* every invocation of the external tool returns: a step that can be
\* taken is eventually taken.
SpecBatchFair == SpecBatch /\ WF_vars(NextBatch)

\* ======================================================================
\* video_to_gif.py: build_scale_filter
\* ======================================================================
\* Python computes int(source * (scalePercent / 100.0)) with IEEE 754
\* doubles: the quotient and the product are each rounded to 53
\* significant bits, ties to even, and int truncates. The integers
\* involved exceed the machine integers of the model checker, so a
\* natural number is held as the sequence of its binary digits, most
\* significant first.
MantissaBits == 53

\* The binary digits of a natural number below 2^30.
BitLength(n) == CHOOSE l \in 0..30 : n < 2^l /\ (l = 0 \/ 2^(l - 1) <= n)
Bits(n) == [i \in 1..BitLength(n) |-> (n \div 2^(BitLength(n) - i)) % 2]

Zeros(k) == [i \in 1..k |-> 0]
Pad(bits, len) == Zeros(len - Len(bits)) \o bits
High(bits, low) == SubSeq(bits, 1, Len(bits) - low)
Low(bits, low) == SubSeq(bits, Len(bits) - low + 1, Len(bits))

\* The number a short digit sequence stands for.
RECURSIVE Value(_)
Value(bits) ==
    IF Len(bits) = 0 THEN 0
    ELSE IF Len(bits) = 1 THEN bits[1]
    ELSE LET h == Len(bits) \div 2
         IN  Value(High(bits, h)) * 2^h + Value(Low(bits, h))

RECURSIVE Strip(_)
Strip(bits) ==
    IF bits # <<>> /\ bits[1] = 0 THEN Strip(Tail(bits)) ELSE bits

\* The digits are worked on in pieces of ChunkBits digits, which the
\* machine integers hold.
ChunkBits == 8

\* bits * s + c for naturals s, c below 2^14: the lower half first, its
\* overflow carried into the upper half. The result has at least as many
\* digits as bits.
RECURSIVE MulAddPad(_, _, _)
MulAddPad(bits, s, c) ==
    IF Len(bits) <= ChunkBits
    THEN Pad(Bits(Value(bits) * s + c), Len(bits))
    ELSE LET h == Len(bits) \div 2
             low == MulAddPad(Low(bits, h), s, c)
             high == MulAddPad(High(bits, h), s, Value(High(low, h)))
         IN  high \o Low(low, h)
MulAdd(bits, s, c) == Strip(MulAddPad(bits, s, c))

\* Quotient and remainder of (r * 2^Len(bits) + bits) by a natural d
\* below 2^14, for r < d: long division, the upper half first. The
\* quotient has as many digits as bits.
RECURSIVE DivModPad(_, _, _)
DivModPad(bits, d, r) ==
    IF Len(bits) <= ChunkBits
    THEN LET v == r * 2^Len(bits) + Value(bits)
         IN  [q |-> Pad(Bits(v \div d), Len(bits)), r |-> v % d]
    ELSE LET h == Len(bits) \div 2
             high == DivModPad(High(bits, h), d, r)
             low == DivModPad(Low(bits, h), d, high.r)
         IN  [q |-> high.q \o low.q, r |-> low.r]
DivMod(bits, d) ==
    LET res == DivModPad(bits, d, 0) IN [q |-> Strip(res.q), r |-> res.r]

\* bits / 2^drop rounded to the nearest integer, ties to even.
RoundHalfEven(bits, drop) ==
    IF drop <= 0 THEN bits
    ELSE LET kept == High(bits, drop)
             gone == Low(bits, drop)
             half == gone[1] = 1
             more == \E i \in 2..Len(gone) : gone[i] = 1
             odd == kept # <<>> /\ kept[Len(kept)] = 1
         IN  IF half /\ (more \/ odd) THEN MulAdd(kept, 1, 1) ELSE kept

\* A positive double: the value m / 2^k with m of at most 53 bits (54 only
\* as the power of two a rounding carried into).
\* scalePercent / 100.0 for a natural scalePercent > 0: the k at which the
\* quotient has 53 bits, then the rounding of the remainder.
DivideBy100(p) ==
    LET len == Len(Bits(p))
        DivAt(k) == DivMod(Bits(p) \o Zeros(k), 100)
        k0 == MantissaBits + 7 - len
        k == IF Len(DivAt(k0).q) = MantissaBits THEN k0 ELSE k0 - 1
        d == DivAt(k)
        up == 2 * d.r > 100 \/ (2 * d.r = 100 /\ d.q[Len(d.q)] = 1)
    IN  [m |-> IF up THEN MulAdd(d.q, 1, 1) ELSE d.q, k |-> k]

\* source * x for a natural source > 0 and a double x: the exact product
\* rounded to 53 bits.
TimesDouble(source, x) ==
    LET exact == MulAdd(x.m, source, 0)
        drop == Len(exact) - MantissaBits
    IN  IF drop <= 0 THEN [m |-> exact, k |-> x.k]
        ELSE [m |-> RoundHalfEven(exact, drop), k |-> x.k - drop]

\* int(x) for a positive double x: truncation.
int(x) ==
    IF x.k <= 0 THEN Value(x.m \o Zeros(0 - x.k))
    ELSE Value(High(x.m, x.k))

\* int(source * (scalePercent / 100.0))
ScaledExactly(source, scalePercent) == (source * scalePercent) \div 100
Scaled(source, scalePercent) ==
    IF source = 0 \/ scalePercent = 0 THEN 0
    ELSE int(TimesDouble(source, DivideBy100(scalePercent)))

\* w if w % 2 == 0 else w + 1
Even(w) == IF w % 2 = 0 THEN w ELSE w + 1

\* build_scale_filter: the two dimensions of the returned scale=w:h.
build_scale_filter(config, width, height) ==
    LET mode == IF "mode" \in DOMAIN config THEN config.mode ELSE "original"
    IN  CASE mode = "original" -> [w |-> width, h |-> height]
          [] mode = "scale" ->
               LET percent == IF "scalePercent" \in DOMAIN config
                              THEN config.scalePercent ELSE 50
               IN  [w |-> Even(Scaled(width, percent)),
                    h |-> Even(Scaled(height, percent))]
          [] mode = "width" ->
               [w |-> IF "width" \in DOMAIN config THEN config.width ELSE 480,
                h |-> 0 - 2]
          [] mode = "custom" ->
               [w |-> IF "width" \in DOMAIN config THEN config.width ELSE 640,
                h |-> IF "height" \in DOMAIN config THEN config.height
                      ELSE 480]
          [] OTHER -> [w |-> width, h |-> height]

\* Source dimensions, the percentages of mode scale, and the resolution
\* objects: every mode, one that does not exist, and none at all.
ScaleSources == {1, 2, 25, 100, 200, 640, 720, 1080, 1920}
ScalePercents == {0, 1, 29, 35, 50, 58, 100, 116, 150}
ResolutionConfigs ==
    {[mode |-> "scale", scalePercent |-> percent] : percent \in ScalePercents}
    \cup {[mode |-> "scale"], [mode |-> "original"], [mode |-> "width"],
          [mode |-> "width", width |-> 320],
          [mode |-> "custom", width |-> 320, height |-> 200],
          [mode |-> "custom"], [mode |-> "fit"], [scalePercent |-> 50]}

InitScale ==
    /\ pc = "scale_call"
    /\ duration = 0
    /\ trim_start = 0
    /\ trim_end = None
    /\ cut_segments = <<>>
    /\ target_fps = 0
    /\ keep_segments = <<>>
    /\ GifIdle
    /\ PoolIdle
    /\ settings = DefaultSettings
    /\ MainIdle
    /\ resolution_config \in ResolutionConfigs
    /\ source_width \in ScaleSources
    /\ source_height \in ScaleSources
    /\ scale_filter = None
    /\ WorkerIdle
    /\ TaskIdle

CallBuildScaleFilter ==
    /\ pc = "scale_call"
    /\ scale_filter' = Some(build_scale_filter(resolution_config,
                                               source_width, source_height))
    /\ pc' = "scale_returned"
    /\ UNCHANGED <<calcVars, keep_segments, gifVars, poolVars, settings,
                   mainVars, resolution_config, source_width, source_height,
                   workerVars, taskVars>>

NextScale == CallBuildScaleFilter

SpecScale == InitScale /\ [][NextScale]_vars


\* ======================================================================
\* video_audio_separator_batch.py: process_single_file in its worker,
\* one invocation of the external tool per step
\* ======================================================================
\* extract_video_stream: return code 0, another return code, or
\* subprocess.run raises.
VideoOutcomes == {"ok", "nonzero", "raise"}
\* One method of extract_audio_stream: return code 0 with an output file
\* of more than 1000 bytes, return code 0 without such a file, another
\* return code, or subprocess.run raises.
AudioOutcomes == {"ok", "small", "nonzero", "raise"}
\* The codec arguments of the three WAV methods, in the order of the list
\* methods, and of the raw stream copy.
AudioMethods == <<"pcm_s16le", "pcm_f32le", "wav">>
RawCopy == "copy"

\* The command line of one invocation, with what became of it.
SepCmd(stream, codec, input, output, outcome) ==
    [tool |-> "ffmpeg", stream |-> stream, codec |-> codec, input |-> input,
     output |-> output, outcome |-> outcome]

\* video_output, audio_output and raw_output
VideoOutput(path) == [dir |-> SepOutputDir(path), stream |-> "video"]
AudioOutput(path) == [dir |-> SepOutputDir(path), stream |-> "audio"]
RawOutput(path) ==
    [dir |-> SepOutputDir(path), stream |-> "audio", ext |-> "aac"]

\* A variant that takes return code 0 for success, whatever was written.
MethodSucceededByReturnCode(outcome) == outcome \in {"ok", "small"}

\* returncode == 0 and the output exists and has more than 1000 bytes
MethodSucceeded(outcome) == outcome = "ok"

\* The results of extract_video_stream and extract_audio_stream.
VideoResult(id, out, outcome) ==
    IF outcome = "ok"
    THEN [success |-> TRUE, file_id |-> id, stream |-> "video", output |-> out]
    ELSE [success |-> FALSE, file_id |-> id, stream |-> "video",
          error |-> IF outcome = "nonzero" THEN "stderr" ELSE "exception"]
AudioSuccess(id, out) ==
    [success |-> TRUE, file_id |-> id, stream |-> "audio", output |-> out]
AudioSuccessRaw(id, out) ==
    [success |-> TRUE, file_id |-> id, stream |-> "audio", output |-> out,
     warning |-> "Could not convert to WAV, saved as AAC"]
AudioFailure(id) ==
    [success |-> FALSE, file_id |-> id, stream |-> "audio",
     error |-> "All audio extraction methods failed"]

\* dict.get(key, False)
GetFlag(d, key) == IF key \in DOMAIN d THEN d[key] ELSE FALSE

\* A variant in which the result of the file is that of its video stream.
SingleFileResultVideoOnly(id, dir, video, audio) ==
    [file |-> id, output_dir |-> dir, video |-> video, audio |-> audio,
     success |-> video.success]

\* The dictionary process_single_file returns after the extractions.
SingleFileResult(id, dir, video, audio) ==
    [file |-> id, output_dir |-> dir, video |-> video, audio |-> audio,
     success |-> video.success
                 /\ (GetFlag(audio, "success") \/ GetFlag(audio, "skipped"))]

\* One task: an existing file, about to be probed by its worker.
InitSingleFile ==
    /\ pc = "psf_probe"
    /\ duration = 0
    /\ trim_start = 0
    /\ trim_end = None
    /\ cut_segments = <<>>
    /\ target_fps = 0
    /\ keep_segments = <<>>
    /\ \E p \in Paths : files = <<p>> /\ existing = {p} /\ valid_files = <<p>>
    /\ speed_mult = 1
    /\ results = <<>>
    /\ events = <<>>
    /\ invocations = <<>>
    /\ segment_files = <<>>
    /\ source_for_gif = NoRef
    /\ temp_dir = FALSE
    /\ file_keep = <<>>
    /\ temp_files = {}
    /\ exit_code = None
    /\ PoolIdle
    /\ settings = DefaultSettings
    /\ MainIdle
    /\ ScaleIdle
    /\ WorkerIdle
    /\ TaskIdle

\* process_single_file up to the first extraction: the probe and the
\* output directory. os.makedirs may raise; the exception leaves
\* process_single_file and is kept in the future.
PsfProbe ==
    /\ pc = "psf_probe"
    /\ \E outcome \in ProbeOutcomes, has_audio \in BOOLEAN,
          makedirs \in {"ok", "raise"} :
          IF outcome # "ok"
          THEN /\ events' = events
                    \o (IF outcome = "raise"
                        THEN <<ErrorAbout("Failed to probe", video_path)>>
                        ELSE <<>>)
               /\ single_result' = Some(FailedResult(file_id,
                                            "Failed to probe video"))
               /\ pc' = "psf_returned"
               /\ UNCHANGED info
          ELSE /\ info' = Some([has_audio |-> has_audio])
               /\ UNCHANGED events
               /\ IF makedirs = "raise"
                  THEN /\ single_result' = Some([success |-> FALSE,
                                                 raised |-> "exception"])
                       /\ pc' = "psf_raised"
                  ELSE /\ pc' = "psf_video"
                       /\ UNCHANGED single_result
    /\ UNCHANGED <<calcVars, keep_segments, files, existing, speed_mult,
                   valid_files, results, invocations, segment_files,
                   source_for_gif, temp_dir, file_keep, temp_files, exit_code,
                   poolVars, settings, mainVars, scaleVars, taskVars,
                   video_result,
                   audio_result, audio_method>>

\* extract_video_stream, then the choice between extracting the audio and
\* skipping it; without an audio stream process_single_file returns.
PsfVideo ==
    /\ pc = "psf_video"
    /\ \E outcome \in VideoOutcomes :
          LET video == VideoResult(file_id, VideoOutput(video_path), outcome)
          IN  /\ invocations' = Append(invocations,
                    SepCmd("video", "h264", video_path,
                           VideoOutput(video_path), outcome))
              /\ video_result' = Some(video)
              /\ IF info[1].has_audio
                 THEN /\ audio_method' = 1
                      /\ pc' = "psf_audio"
                      /\ UNCHANGED <<audio_result, single_result>>
                 ELSE /\ audio_result' = Some(SkippedAudio)
                      /\ single_result' = Some(SingleFileResult(file_id,
                             SepOutputDir(video_path), video, SkippedAudio))
                      /\ pc' = "psf_returned"
                      /\ UNCHANGED audio_method
    /\ UNCHANGED <<calcVars, keep_segments, files, existing, speed_mult,
                   valid_files, results, events, segment_files,
                   source_for_gif, temp_dir, file_keep, temp_files, exit_code,
                   poolVars, settings, mainVars, scaleVars, taskVars,
                   info>>

\* One iteration of the loop over methods in extract_audio_stream; a
\* success returns from extract_audio_stream and process_single_file.
PsfAudio ==
    /\ pc = "psf_audio"
    /\ \E outcome \in AudioOutcomes :
          /\ invocations' = Append(invocations,
                SepCmd("audio", AudioMethods[audio_method], video_path,
                       AudioOutput(video_path), outcome))
          /\ IF MethodSucceeded(outcome)
             THEN LET audio == AudioSuccess(file_id, AudioOutput(video_path))
                  IN  /\ audio_result' = Some(audio)
                      /\ single_result' = Some(SingleFileResult(file_id,
                             SepOutputDir(video_path), video_result[1], audio))
                      /\ pc' = "psf_returned"
                      /\ UNCHANGED audio_method
             ELSE /\ IF audio_method < Len(AudioMethods)
                     THEN audio_method' = audio_method + 1 /\ UNCHANGED pc
                     ELSE pc' = "psf_copy" /\ UNCHANGED audio_method
                  /\ UNCHANGED <<audio_result, single_result>>
    /\ UNCHANGED <<calcVars, keep_segments, files, existing, speed_mult,
                   valid_files, results, events, segment_files,
                   source_for_gif, temp_dir, file_keep, temp_files, exit_code,
                   poolVars, settings, mainVars, scaleVars, taskVars,
                   info,
                   video_result>>

\* The raw stream copy after the loop, and the return of
\* extract_audio_stream and process_single_file.
PsfCopy ==
    /\ pc = "psf_copy"
    /\ \E outcome \in AudioOutcomes :
          LET audio == IF MethodSucceeded(outcome)
                       THEN AudioSuccessRaw(file_id, RawOutput(video_path))
                       ELSE AudioFailure(file_id)
          IN  /\ invocations' = Append(invocations,
                    SepCmd("audio", RawCopy, video_path,
                           RawOutput(video_path), outcome))
              /\ audio_result' = Some(audio)
              /\ single_result' = Some(SingleFileResult(file_id,
                     SepOutputDir(video_path), video_result[1], audio))
              /\ pc' = "psf_returned"
    /\ UNCHANGED <<calcVars, keep_segments, files, existing, speed_mult,
                   valid_files, results, events, segment_files,
                   source_for_gif, temp_dir, file_keep, temp_files, exit_code,
                   poolVars, settings, mainVars, scaleVars, taskVars,
                   info,
                   video_result, audio_method>>

NextSingleFile == PsfProbe \/ PsfVideo \/ PsfAudio \/ PsfCopy

SpecSingleFile == InitSingleFile /\ [][NextSingleFile]_vars

\* ------------- video_splitter_batch.py: the segment tasks of one file
\* A time that need not be a whole number of ticks: num / den ticks.
Frac(n, d) == [num |-> n, den |-> d]
FracTimes(k, a) == [num |-> k * a.num, den |-> a.den]
FracLess(a, b) == a.num * b.den < b.num * a.den
FracEq(a, b) == a.num * b.den = b.num * a.den

\* The split_value of the config is a JSON number; here it is written in
\* ticks (the number times TicksPerSecond), in both modes, so that 0.5 or
\* 2.5 exist. int(split_value) truncates.
IntOfTicks(value) == value \div TicksPerSecond

\* num_segments of process_video_file, for a split_value in ticks.
TaskCount(method, value, dur) ==
    IF method = "duration" THEN Ceil(dur, value) ELSE IntOfTicks(value)

\* segment_duration of process_video_file (TaskCount is not zero).
SegmentDuration(method, value, dur) ==
    IF method = "duration"
    THEN Frac(value, 1)
    ELSE Frac(dur, TaskCount(method, value, dur))

\* The division of lines 215 and 218 raises ZeroDivisionError.
DividesByZero(method, value) ==
    IF method = "duration" THEN value = 0 ELSE IntOfTicks(value) = 0

\* segment_tasks of process_video_file: start_time, segment_duration,
\* segment number and num_segments of each tuple.
SegmentTasks(method, value, dur) ==
    LET num_segments == TaskCount(method, value, dur)
        segment_duration == SegmentDuration(method, value, dur)
    IN  [i \in 1..num_segments |->
            [start_time |-> FracTimes(i - 1, segment_duration),
             segment_duration |-> segment_duration,
             segment |-> i,
             num_segments |-> num_segments]]

\* info['duration'] and the split configuration of one probed file.
InitTasks ==
    /\ pc = "tasks_call"
    /\ duration \in 1..MaxTime
    /\ trim_start = 0
    /\ trim_end = None
    /\ cut_segments = <<>>
    /\ target_fps = 0
    /\ keep_segments = <<>>
    /\ GifIdle
    /\ parallel_jobs = 1
    /\ split_method \in {"duration", "segments"}
    /\ split_value \in 0..(MaxSegments * TicksPerSecond)
    /\ workers = 0
    /\ jobs = <<>>
    /\ outputs = <<>>
    /\ errors = <<>>
    /\ ExtraIdle

\* process_video_file from the segment parameters to the task list.
BuildSegmentTasks ==
    /\ pc = "tasks_call"
    /\ IF DividesByZero(split_method, split_value)
       THEN /\ pc' = "tasks_raised"
            /\ UNCHANGED segment_tasks
       ELSE /\ segment_tasks' =
                  SegmentTasks(split_method, split_value, duration)
            /\ pc' = "tasks_returned"
    /\ UNCHANGED <<calcVars, keep_segments, gifVars, poolVars, settings,
                   mainVars, scaleVars, workerVars, summary>>

NextTasks == BuildSegmentTasks
SpecTasks == InitTasks /\ [][NextTasks]_vars

\* --------------------- video_splitter.py: the interactive splitter
\* The answers main accepts to its questions: the split method ("1" by
\* number of segments, "2" by duration per segment), a positive number of
\* segments, a positive segment duration (in ticks), y or n at the end.
InteractiveMethods == {"1", "2"}
SegmentCounts == 1..MaxSegments
SegmentLengths == TicksPerSecond..(MaxSegments * TicksPerSecond)
\* How ffmpeg can end for one segment: return code 0, or
\* CalledProcessError, which split_video prints before it continues.
AttemptOutcomes == {"ok", "CalledProcessError"}

\* segment_duration of main, in ticks: math.ceil(duration / num_segments)
\* whole seconds in method 1, the number entered in method 2.
AskedSegmentDuration(choice, value, dur) ==
    IF choice = "1"
    THEN Ceil(dur, value * TicksPerSecond) * TicksPerSecond
    ELSE value
\* num_segments of main: the number entered in method 1,
\* math.ceil(duration / segment_duration) in method 2.
AskedNumSegments(choice, value, dur) ==
    IF choice = "1" THEN value ELSE Ceil(dur, value)
\* num_segments of split_video, computed again from the segment duration.
SplitVideoSegments(dur, segment_duration) == Ceil(dur, segment_duration)

\* main after get_video_info: the duration of the video is known.
InitInteractive ==
    /\ pc = "ask"
    /\ duration \in 1..(MaxTime * TicksPerSecond)
    /\ trim_start = 0
    /\ trim_end = None
    /\ cut_segments = <<>>
    /\ target_fps = 0
    /\ keep_segments = <<>>
    /\ GifIdle
    /\ PoolIdle
    /\ ExtraIdle

\* main from the split method question to the Settings Summary.
AskSettings ==
    /\ pc = "ask"
    /\ \E choice \in InteractiveMethods :
       \E value \in (IF choice = "1" THEN SegmentCounts
                                      ELSE SegmentLengths) :
          /\ split_method' = choice
          /\ split_value' = value
          /\ summary' = Some(
                 [num_segments |-> AskedNumSegments(choice, value, duration),
                  segment_duration |->
                      AskedSegmentDuration(choice, value, duration)])
    /\ pc' = "proceed"
    /\ UNCHANGED <<calcVars, keep_segments, gifVars, parallel_jobs, workers,
                   jobs, outputs, errors, settings, mainVars, scaleVars,
                   workerVars, segment_tasks>>

\* "Proceed with these settings?": anything but y cancels.
Proceed ==
    /\ pc = "proceed"
    /\ \E answer \in {"y", "n"} :
          pc' = IF answer = "y" THEN "split_video" ELSE "cancelled"
    /\ UNCHANGED <<calcVars, keep_segments, gifVars, poolVars, extraVars>>

\* One turn of the loop of split_video: the ffmpeg run of segment i.
SplitVideoSegment ==
    /\ pc = "split_video"
    /\ LET segment_duration == summary[1].segment_duration
           num_segments == SplitVideoSegments(duration, segment_duration)
           i == Len(segment_tasks)
       IN  /\ \E outcome \in AttemptOutcomes :
                segment_tasks' = Append(segment_tasks,
                    [segment |-> i + 1,
                     start_time |-> i * segment_duration,
                     num_segments |-> num_segments,
                     outcome |-> outcome])
           /\ pc' = IF i + 1 = num_segments
                    THEN "split_video_returned"
                    ELSE "split_video"
    /\ UNCHANGED <<calcVars, keep_segments, gifVars, poolVars, settings,
                   mainVars, scaleVars, workerVars, summary>>

NextInteractive == AskSettings \/ Proceed \/ SplitVideoSegment
SpecInteractive == InitInteractive /\ [][NextInteractive]_vars

\* ======================================================================
\* main: the same function in the three batch scripts
\* ======================================================================
\* sys.argv: no argument, --config with a path, --config without a path,
\* --help, some other argument.
ArgvValues == { <<"script">>, <<"script", "--config", "config.json">>,
                <<"script", "--config">>, <<"script", "--help">>,
                <<"script", "input.mp4">> }
\* What is found at the path given with --config: nothing that can be
\* opened, text that is not JSON, the JSON value null, a JSON value that
\* is no object, a JSON object.
ConfigFileValues == {"unreadable", "invalid", "null", "scalar", "object"}
\* Standard input: a terminal, no text, text that is not JSON, the JSON
\* value null, a JSON value that is no object, a JSON object.
StdinValues == {"tty", "empty", "invalid", "null", "scalar", "object"}

FailedToRead == "Failed to read config file"
NoConfiguration == "No configuration provided"
InvalidJson == "Invalid JSON input"

\* The outcome of main before run_batch is called: an exit (with the
\* lines printed before it) or the parsed configuration.
Exit(status, lines) == [exit |-> Some(status), lines |-> lines, config |-> "none"]
Loaded(config) == [exit |-> None, lines |-> <<>>, config |-> config]

\* The second half of main: the configuration from standard input.
ReadStdin(in) ==
    IF in = "tty" THEN Exit(1, <<ErrorEvent(NoConfiguration)>>)
    ELSE IF in \in {"empty", "invalid"}
    THEN Exit(1, <<ErrorEvent(InvalidJson)>>)
    ELSE Loaded(in)

\* A variant in which a --config file that cannot be read or parsed is
\* passed over, and standard input is tried.
ReadConfigSkipsBadFile(args, file, in) ==
    IF Len(args) > 1 /\ args[2] = "--config" /\ Len(args) > 2
         /\ file \in {"scalar", "object"}
    THEN Loaded(file)
    ELSE IF Len(args) > 1 /\ args[2] = "--help"
    THEN Exit(0, <<[event |-> "none", text |-> "__doc__"]>>)
    ELSE ReadStdin(in)

\* main up to the call of run_batch. args[1] is the script, so args[2]
\* is sys.argv[1]. A file holding null leaves config at None, and
\* standard input is read next.
ReadConfig(args, file, in) ==
    IF Len(args) > 1 /\ args[2] = "--config" /\ Len(args) > 2
    THEN IF file \in {"unreadable", "invalid"}
         THEN Exit(1, <<ErrorEvent(FailedToRead)>>)
         ELSE IF file = "null" THEN ReadStdin(in) ELSE Loaded(file)
    ELSE IF Len(args) > 1 /\ args[2] = "--help"
    THEN Exit(0, <<[event |-> "none", text |-> "__doc__"]>>)
    ELSE ReadStdin(in)

\* main. run_batch starts with input_config.get, which raises
\* AttributeError for a configuration that is no object: traceback,
\* status 1.
main(at, run, crashed, exited) ==
    /\ pc = at
    /\ LET read == ReadConfig(argv, config_file, stdin)
       IN  IF read.exit # None
           THEN /\ events' = events \o read.lines
                /\ exit_code' = read.exit
                /\ pc' = exited
           ELSE IF read.config # "object"
           THEN /\ exit_code' = Some(1)
                /\ pc' = crashed
                /\ UNCHANGED events
           ELSE /\ pc' = run
                /\ UNCHANGED <<events, exit_code>>
    /\ UNCHANGED <<calcVars, keep_segments, files, existing, speed_mult,
                   valid_files, results, invocations, segment_files,
                   source_for_gif, temp_dir, file_keep, temp_files,
                   poolVars, extraVars>>

GifMain == main("main", "run_batch", "crashed", "exit")
SplitMain == main("split_main", "split_run_batch", "split_crashed", "split_exit")
SepMain == main("sep_main", "sep_run_batch", "sep_crashed", "sep_exit")

\* A process of each script with at most one input file, started with
\* every kind of command line, config file and standard input.
InitMain ==
    /\ \/ /\ InitGifAt("main")
          /\ target_fps = TicksPerSecond
          /\ Len(cut_segments) = 1
          /\ speed_mult = 1
       \/ /\ InitSplitAt("split_main")
          /\ split_method = "duration"
          /\ parallel_jobs = 1
          /\ settings = DefaultSettings
       \/ /\ InitSepAt("sep_main")
          /\ parallel_jobs = 1
          /\ settings = DefaultSettings
    /\ Len(files) <= 1
    /\ argv \in ArgvValues
    /\ config_file \in ConfigFileValues
    /\ stdin \in StdinValues

\* ---- the runs with per-file parameters
\* The names of the input files, and the override maps: none, or an entry
\* for one name.
FileNames == {p.name : p \in Paths}
OverrideMaps(value) ==
    {<<>>} \cup {[n \in {name} |-> value] : name \in FileNames}
ParamModes == {"single", "per_file"}
\* The overriding frame rate and sample rate.
PerFileFps == 24
PerFileSampleRate == 44100

\* A splitter run or a separator run of existing files, for every mode
\* and override map.
InitParams ==
    /\ \/ /\ InitSplitAt("split_run_batch")
          /\ split_method = "segments"
          /\ parallel_jobs = 1
          /\ \E m \in ParamModes, v \in OverrideMaps(PerFileFps) :
                settings = [DefaultSettings EXCEPT !.fps_mode = m,
                                                   !.fps_values = v]
       \/ /\ InitSepAt("sep_run_batch")
          /\ parallel_jobs = 2
          /\ \E m \in ParamModes, v \in OverrideMaps(PerFileSampleRate) :
                settings = [DefaultSettings EXCEPT !.sample_rate_mode = m,
                                                   !.sample_rates = v]
    /\ files # <<>>
    /\ existing = {files[i] : i \in 1..Len(files)}
    /\ MainIdle

NextParams == NextSplit \/ NextSep

SpecParams == InitParams /\ [][NextParams]_vars

NextMain == GifMain \/ SplitMain \/ SepMain \/ NextBatch

SpecMain == InitMain /\ [][NextMain]_vars

\* ======================================================================
\* Properties of calculate_keep_segments
\* ======================================================================
Returned == pc = "returned"

\* The trimmed range the call starts from, before snapping.
RawEnd == EffectiveEnd(duration, trim_end)

\* All orderings of a list.
Orderings(s) ==
    LET n == Len(s)
        bij == {p \in [1..n -> 1..n] : \A i, j \in 1..n : p[i] = p[j] => i = j}
    IN  {[i \in 1..n |-> s[p[i]]] : p \in bij}

\* Time cells [t, t+1) covered by a list of ranges with whole-tick endpoints.
Cells == 0..(MaxTime - 1)
Covered(ranges) ==
    {t \in Cells : \E i \in 1..Len(ranges) : ranges[i][1] <= t /\ t < ranges[i][2]}
CutAway(cuts) ==
    {t \in Cells : \E i \in 1..Len(cuts) : cuts[i].start <= t /\ t < cuts[i].end}

\* t is already on a frame tick of fps (snapping leaves it alone).
OnTick(t, fps) == snap_to_frame(t, fps) = t

\* C1: every returned keep segment satisfies 0 <= start < end <= duration,
\* the segments are pairwise disjoint and sorted ascending by start.
C1_SegmentsWellFormed ==
    Returned =>
        /\ \A i \in 1..Len(keep_segments) :
              /\ 0 <= keep_segments[i][1]
              /\ keep_segments[i][1] < keep_segments[i][2]
              /\ keep_segments[i][2] <= duration
        /\ \A i, j \in 1..Len(keep_segments) :
              i < j => keep_segments[i][2] <= keep_segments[j][1]

\* C2: without frame snapping, for trim_start < trim_end and cuts with
\* start < end, the time covered by the returned segments is the trim range
\* [trim_start, trim_end) minus the union of the cuts [start, end).
C2_SetSubtraction ==
    (/\ Returned
     /\ target_fps = 0
     /\ trim_start < RawEnd
     /\ \A i \in 1..Len(cut_segments) :
           cut_segments[i].start < cut_segments[i].end)
    => Covered(keep_segments)
         = {t \in Cells : trim_start <= t /\ t < RawEnd} \ CutAway(cut_segments)

\* C2 witness: two cuts met the (unsnapped) trimmed range, one of them
\* reaching over its start or end, and more than one segment is left.
C2_Witness ==
    /\ Returned
    /\ target_fps = 0
    /\ Len(cut_segments) = 2
    /\ Len(keep_segments) >= 2
    /\ \E i \in 1..2 : \/ cut_segments[i].start <= trim_start
                       \/ cut_segments[i].end >= RawEnd
    /\ CutAway(cut_segments) \cap {t \in Cells : trim_start <= t /\ t < RawEnd} # {}

\* C3: reordering the cuts input list never changes the output.
C3_OrderIndependent ==
    Returned =>
        \A other \in Orderings(cut_segments) :
            calculate_keep_segments(duration, trim_start, trim_end, other,
                                    target_fps) = keep_segments

\* C4: a single cut equal to the full trimmed range gives an empty list.
C4_FullCutGivesEmpty ==
    (/\ Returned
     /\ Len(cut_segments) = 1
     /\ cut_segments[1].start = trim_start
     /\ cut_segments[1].end = RawEnd)
    => keep_segments = <<>>

\* C5: with a frame rate F > 0 every boundary of every returned segment is
\* k/F for an integer k, that is a whole number of frames.
C5_BoundariesOnFrameTicks ==
    (Returned /\ target_fps > 0) =>
        \A i \in 1..Len(keep_segments) : \A b \in 1..2 :
            (keep_segments[i][b] * target_fps) % TicksPerSecond = 0

\* C5 witness: a call with a frame rate whose trim end and every cut endpoint
\* were off the frame grid, and a cut removed the head of the trimmed range.
C5_Witness ==
    /\ Returned
    /\ target_fps > 0
    /\ Len(keep_segments) >= 1
    /\ Len(cut_segments) >= 1
    /\ ~ OnTick(RawEnd, target_fps)
    /\ \A i \in 1..Len(cut_segments) :
          \/ ~ OnTick(cut_segments[i].start, target_fps)
          \/ ~ OnTick(cut_segments[i].end, target_fps)
    /\ keep_segments[1][1] # snap_to_frame(trim_start, target_fps)

\* k >= 1 cuts, pairwise disjoint and non-touching, strictly inside the trim
\* range.
C6_CutsInside ==
    /\ Returned
    /\ Len(cut_segments) >= 1
    /\ \A i \in 1..Len(cut_segments) :
          /\ trim_start < cut_segments[i].start
          /\ cut_segments[i].start < cut_segments[i].end
          /\ cut_segments[i].end < RawEnd
    /\ \A i, j \in 1..Len(cut_segments) :
          i # j => \/ cut_segments[i].end < cut_segments[j].start
                   \/ cut_segments[j].end < cut_segments[i].start

\* The k+1 segments between the cuts taken in ascending start order.
C6_Between(tstart, tend, cuts) ==
    LET k == Len(cuts)
        asc == CHOOSE o \in Orderings(cuts) :
                   \A i \in 1..(k - 1) : o[i].start < o[i + 1].start
    IN  [i \in 1..(k + 1) |->
            << IF i = 1 THEN tstart ELSE asc[i - 1].end,
               IF i = k + 1 THEN tend ELSE asc[i].start >>]

\* The example of the specification, 20 s with cuts {5,8} and {15,17}.
C6_Example(fps) ==
    LET sec(n) == n * TicksPerSecond
    IN  calculate_keep_segments(sec(20), 0, Some(sec(20)),
            << [start |-> sec(5), end |-> sec(8)],
               [start |-> sec(15), end |-> sec(17)] >>, fps)
        = << <<0, sec(5)>>, <<sec(8), sec(15)>>, <<sec(17), sec(20)>> >>

C6_ExampleHolds == \A fps \in FpsValues : C6_Example(fps)

\* C6 as stated: the k+1 segments between the cuts, whatever the frame rate.
C6_SegmentsBetweenCuts ==
    C6_CutsInside =>
        keep_segments = C6_Between(trim_start, RawEnd, cut_segments)

\* No endpoint is moved by snapping.
C6_NothingSnapped ==
    /\ OnTick(trim_start, target_fps)
    /\ OnTick(RawEnd, target_fps)
    /\ \A i \in 1..Len(cut_segments) :
          /\ OnTick(cut_segments[i].start, target_fps)
          /\ OnTick(cut_segments[i].end, target_fps)

\* C6 (amended): when no frame snapping is applied, or every trim and cut
\* endpoint already lies on a frame tick, k >= 1 pairwise disjoint,
\* non-touching cuts strictly inside the trim range give exactly the k+1
\* segments between them; the 20 s example gives [(0,5),(8,15),(17,20)].
C6_SegmentsBetweenCutsUnsnapped ==
    /\ (C6_CutsInside /\ C6_NothingSnapped) =>
           keep_segments = C6_Between(trim_start, RawEnd, cut_segments)
    /\ C6_ExampleHolds

\* C6 witness: two cuts inside the range, given in descending order, three
\* segments returned.
C6_Witness ==
    /\ C6_CutsInside
    /\ C6_NothingSnapped
    /\ Len(cut_segments) = 2
    /\ cut_segments[1].start > cut_segments[2].start
    /\ Len(keep_segments) = 3

\* ======================================================================
\* Properties of process_video_to_gif
\* ======================================================================
\* The command lines run for file number f, in order.
InvocationsOf(f) ==
    LET ForFile(c) == c.file = f
    IN  SelectSeq(invocations, ForFile)

\* The events of file number f: those after its progress event, up to the
\* next progress or complete event.
EventsOf(f) ==
    LET n == Len(events)
        IsProgress(k, g) == /\ events[k].event = "progress"
                            /\ events[k].current_file = g
        first == CHOOSE k \in 1..n : IsProgress(k, f)
        closers == {k \in (first + 1)..n :
                       events[k].event \in {"progress", "complete"}}
        last == IF closers = {} THEN n
                ELSE (CHOOSE k \in closers : \A m \in closers : k <= m) - 1
    IN  SubSeq(events, first + 1, last)

\* The keep segments computed for file number f (its probe succeeded).
KeepOf(f) == file_keep[f][1]
Probed(f) == f <= Len(file_keep) /\ file_keep[f] # None
Names(chain) == [i \in 1..Len(chain) |-> chain[i].name]
Front(chain) == SubSeq(chain, 1, Len(chain) - 1)

\* C7: a file whose keep-segment list is empty ends with a file_error event
\* and a failed result with the error "No video content remaining after
\* cuts", and no encode-tool invocation is made for it.
C7_EmptyKeepFailsWithoutEncode ==
    \A f \in 1..Len(file_keep) :
        (Probed(f) /\ KeepOf(f) = <<>>) =>
            /\ f <= Len(results)
            /\ results[f] = [success |-> FALSE, file |-> valid_files[f].name,
                             error |-> NoContent]
            /\ EventsOf(f)
                 = << [event |-> "file_start", file |-> valid_files[f].name,
                       path |-> valid_files[f]],
                      [event |-> "file_error", file |-> valid_files[f].name,
                       error |-> NoContent] >>
            /\ InvocationsOf(f) = <<>>

\* C7 witness: a finished run in which the cuts left nothing of one file
\* while another file was encoded.
C7_Witness ==
    /\ pc = "done"
    /\ \E f \in 1..Len(file_keep) : Probed(f) /\ KeepOf(f) = <<>>
    /\ \E g \in 1..Len(results) : results[g].success

\* C8: with exactly one keep segment no extraction and no concat is issued
\* and the trim is the first filter, applied to the original source; with
\* more than one keep segment the file is extracted and joined, and the
\* palette and GIF passes read the concatenated intermediate, never the
\* original source.
C8_StrategySelection ==
    \A k \in 1..Len(invocations) :
        LET c == invocations[k]
            f == c.file
            keep == KeepOf(f)
            before == SubSeq(InvocationsOf(f), 1,
                             Cardinality({j \in 1..(k - 1) :
                                             invocations[j].file = f}))
            Extracts(j) == before[j].tool = "extract"
            Concats(j) == before[j].tool = "concat"
        IN  /\ Probed(f)
            /\ Len(keep) = 1 =>
                  /\ c.tool \in {"palettegen", "gif"}
                  /\ c.input = Ref("source", f, 0)
                  /\ c.filters[1].name = "trim"
                  /\ c.filters[1].args
                       = <<Fmt6(keep[1][1]), Fmt6(keep[1][2] - keep[1][1])>>
            /\ Len(keep) > 1 =>
                  /\ c.tool \in {"extract", "concat", "palettegen", "gif"}
                  /\ c.tool \in {"palettegen", "gif"} =>
                        /\ c.input = Ref("merged", f, 0)
                        /\ \A i \in 1..Len(c.filters) :
                              c.filters[i].name # "trim"
                        /\ Cardinality({j \in 1..Len(before) : Extracts(j)})
                             = Len(keep)
                        /\ Cardinality({j \in 1..Len(before) : Concats(j)}) = 1
                  /\ c.tool \in {"extract", "concat"} =>
                        c.input # Ref("merged", f, 0)

\* C8 witness: a finished run that converted one file on the direct path
\* and another one on the extract-and-join path.
C8_Witness ==
    /\ pc = "done"
    /\ \E f, g \in 1..Len(results) :
          /\ results[f].success /\ Len(KeepOf(f)) = 1
          /\ results[g].success /\ Len(KeepOf(g)) > 1

\* C9: a file with N > 1 keep segments whose stages all succeed gets
\* exactly N extractions (the i-th one from start_i for end_i - start_i),
\* then one concat whose manifest lists the intermediates in the order of
\* the keep segments, then the palette pass, then the GIF pass.
C9_ExtractConcatPaletteGif ==
    \A f \in 1..Len(results) :
        (results[f].success /\ Len(KeepOf(f)) > 1) =>
            LET keep == KeepOf(f)
                n == Len(keep)
                inv == InvocationsOf(f)
            IN  /\ Len(inv) = n + 3
                /\ \A i \in 1..n :
                      /\ inv[i].tool = "extract"
                      /\ inv[i].input = Ref("source", f, 0)
                      /\ inv[i].output = Ref("segment", f, i - 1)
                      /\ inv[i].ss = Some(Fmt6(keep[i][1]))
                      /\ inv[i].t = Some(Fmt6(keep[i][2] - keep[i][1]))
                /\ inv[n + 1].tool = "concat"
                /\ inv[n + 1].manifest
                     = [i \in 1..n |-> Ref("segment", f, i - 1)]
                /\ inv[n + 2].tool = "palettegen"
                /\ inv[n + 3].tool = "gif"

\* C9 witness: a file with three keep segments was converted.
C9_Witness ==
    \E f \in 1..Len(results) :
        /\ results[f].success
        /\ Len(KeepOf(f)) = 3
        /\ Len(InvocationsOf(f)) = 6

\* The steps every pass must apply, in order.
C10_Chain(keep, speed) ==
    (IF Len(keep) = 1 THEN <<"trim">> ELSE <<>>)
    \o (IF speed # 1 THEN <<"setpts">> ELSE <<>>)
    \o <<"fps", "scale">>

\* C10: the filter chain is trim (direct path only), speed adjustment (if
\* and only if speed_multiplier is not 1.0), frame-rate resampling, scaling,
\* in that order, and the palette pass and the GIF pass of a file use the
\* same chain, on both paths.
C10_FilterOrder ==
    \A k \in 1..Len(invocations) :
        LET c == invocations[k]
            f == c.file
        IN  c.tool \in {"palettegen", "gif"} =>
               /\ Names(Front(c.filters)) = C10_Chain(KeepOf(f), speed_mult)
               /\ c.filters[Len(c.filters)].name
                    = (IF c.tool = "gif" THEN "paletteuse" ELSE "palettegen")
               /\ \A j \in 1..Len(invocations) :
                     (invocations[j].file = f
                        /\ invocations[j].tool \in {"palettegen", "gif"})
                     => Front(invocations[j].filters) = Front(c.filters)

\* C10 witness: with a speed adjustment, one file was converted on the
\* direct path and another one on the extract-and-join path.
C10_Witness ==
    /\ speed_mult # 1
    /\ \E f, g \in 1..Len(results) :
          /\ results[f].success /\ Len(KeepOf(f)) = 1
          /\ results[g].success /\ Len(KeepOf(g)) > 1


\* The error text process_video_to_gif raises for a failing stage.
StageError(tool) ==
    CASE tool = "extract" -> "Segment extraction failed"
      [] tool = "concat" -> "Concat failed"
      [] tool = "palettegen" -> "Palette generation failed"
      [] tool = "gif" -> "GIF creation failed"

\* The positions in a list of command lines of those that failed.
FailedIn(inv) == {k \in 1..Len(inv) : inv[k].returncode # 0}

InPipeline == pc \in {"extract", "concat", "palette", "gif"}

\* C12: the temporary directory of a file, with the intermediate clips,
\* the concat manifest, the merged clip and the palette in it, exists only
\* while the pipeline of that file runs: it is gone once
\* process_video_to_gif has returned, with a success or with a failure,
\* and what it holds belongs to the file being processed.
C12_TempDirOnlyWhileRunning ==
    /\ (temp_dir \/ temp_files # {}) => InPipeline
    /\ \A r \in temp_files :
          /\ r.file = cur
          /\ r.kind \in {"segment", "concat.txt", "merged", "palette"}

\* C12 witness: the next file is about to start after one file was
\* converted through intermediates and another one failed in its pipeline.
C12_Witness ==
    /\ pc = "loop"
    /\ \E f, g \in 1..Len(results) :
          /\ results[f].success
          /\ Len(InvocationsOf(f)) > 2
          /\ ~results[g].success
          /\ FailedIn(InvocationsOf(g)) # {}

\* ======================================================================
\* Properties of the worker pools and of the batch runs
\* ======================================================================
\* The per-segment events of file number f: segment_complete events and
\* file_error events that name a segment.
SegmentEventsOf(f) ==
    LET IsSegmentEvent(e) == "segment" \in DOMAIN e
    IN  SelectSeq(EventsOf(f), IsSegmentEvent)

\* C13: in the pool of one file every submitted segment job is attempted
\* and exactly one result per job is collected, whatever the completion
\* order and however many jobs fail: a finished job, failed or not, has
\* given a result value with its file_id and its segment number, and once
\* the file is complete every job has been run and reported exactly once,
\* a failed job by a file_error naming its segment and every other job by
\* a segment_complete.
C13_OneResultPerJob ==
    /\ \A j \in 1..Len(jobs) :
          jobs[j].state \in {"finished", "collected"} =>
             /\ jobs[j].result.success \in BOOLEAN
             /\ jobs[j].result.file_id = valid_files[jobs[j].file].name
             /\ jobs[j].result.segment = jobs[j].segment
    /\ \A f \in 1..Len(results) :
          OfFile(f) # {} =>
             LET n == Cardinality(OfFile(f))
                 ev == SegmentEventsOf(f)
             IN  /\ \A j \in OfFile(f) : jobs[j].state = "collected"
                 /\ Len(ev) = n
                 /\ \A j \in OfFile(f) :
                       \E k \in 1..n :
                          /\ ev[k].segment = jobs[j].segment
                          /\ ev[k].event
                               = (IF jobs[j].result.success
                                  THEN "segment_complete" ELSE "file_error")
                          /\ \A m \in 1..n :
                                ev[m].segment = jobs[j].segment => m = k
                 /\ results[f].segments + Len(results[f].errors) = n
                 /\ results[f].segments
                      = Cardinality({j \in OfFile(f) : jobs[j].result.success})

\* C13 witness: MaxSegments jobs on two workers, exactly job 3 failed, and
\* the results were not collected in submission order.
C13_Witness ==
    /\ pc = "split_done"
    /\ parallel_jobs = 2
    /\ Len(jobs) = MaxSegments
    /\ {j \in 1..Len(jobs) : ~jobs[j].result.success} = {3}
    /\ Len(results) = 1
    /\ results[1].segments = MaxSegments - 1
    /\ SegmentEventsOf(1)[1].segment # 1

\* C14: never more jobs in flight than the cap: in the splitter the
\* running segment jobs are jobs of the file being processed and number at
\* most min(parallel_jobs, segments of that file); in the separator at most
\* parallel_jobs files are being processed; outside the pools none is.
C14_RunningWithinCap ==
    LET running == InState("running")
    IN  /\ pc = "split_pool" =>
              /\ running \subseteq OfFile(cur)
              /\ Cardinality(running)
                   <= Min(parallel_jobs, Cardinality(OfFile(cur)))
        /\ pc = "sep_pool" => Cardinality(running) <= parallel_jobs
        /\ pc \notin {"split_pool", "sep_pool"} => running = {}

\* C14 witness: the cap binds in the splitter: one job runs on the only
\* worker while a finished one waits to be collected and another is queued
\* behind it.
C14_Witness ==
    /\ pc = "split_pool"
    /\ parallel_jobs = 1
    /\ Cardinality(InState("running")) = 1
    /\ InState("queued") \cup InState("finished") # {}
    /\ Cardinality(OfFile(cur)) > 1

\* A job that has been submitted and whose result has not been handled.
Active(j) == jobs[j].state # "collected"

\* File number f of the splitter has emitted the event that closes it: its
\* file_complete, or its file_error without a segment (the probe failed).
SplitClosed(f) ==
    LET ev == EventsOf(f)
    IN  \E k \in 1..Len(ev) :
           \/ ev[k].event = "file_complete"
           \/ ev[k].event = "file_error" /\ "segment" \notin DOMAIN ev[k]

\* C15: the splitter processes the files one after the other: jobs of two
\* different files are never submitted-and-unfinished at the same time,
\* and whenever a job of a file exists, every job of every earlier file
\* has been handled and every earlier file has emitted its file_complete
\* or its probe file_error.
C15_FilesStrictlySerial ==
    /\ \A i, j \in 1..Len(jobs) :
          (Active(i) /\ Active(j)) => jobs[i].file = jobs[j].file
    /\ \A j \in 1..Len(jobs) :
          /\ jobs[j].file <= cur
          /\ Active(j) => jobs[j].file = cur
          /\ \A f \in 1..(jobs[j].file - 1) :
                /\ f <= Len(results)
                /\ SplitClosed(f)
                /\ \A i \in OfFile(f) : ~Active(i)

\* C15 witness: two files of two segments each were split on two workers,
\* the first one with a failed segment and with its results collected out
\* of submission order.
C15_Witness ==
    /\ pc = "split_done"
    /\ parallel_jobs = 2
    /\ Len(results) = 2
    /\ Cardinality(OfFile(1)) = 2
    /\ Cardinality(OfFile(2)) = 2
    /\ ~results[1].success
    /\ SegmentEventsOf(1)[1].segment = 2

\* The complete event of the run, if it has been emitted.
CompleteEvents ==
    LET IsComplete(e) == e.event = "complete"
    IN  SelectSeq(events, IsComplete)

\* C16: in the separator the result list of the complete event is in the
\* order of the input file list restricted to the valid files, whatever
\* the order in which the jobs completed.
C16_ResultsInInputOrder ==
    (pc = "sep_done" /\ CompleteEvents # <<>>) =>
        LET res == CompleteEvents[1].results
        IN  /\ Len(res) = Len(valid_files)
            /\ \A i \in 1..Len(res) : res[i].file = valid_files[i].name

\* C17: in the GIF converter and in the splitter the result list of the
\* complete event holds the valid input files in the order of the input
\* file list, whichever files fail and in whatever order the segment jobs
\* of a file complete.
C17_SerialResultsInInputOrder ==
    (pc \in {"done", "split_done"} /\ CompleteEvents # <<>>) =>
        LET res == CompleteEvents[1].results
        IN  /\ valid_files = ValidFiles(files, existing)
            /\ Len(res) = Len(valid_files)
            /\ \A i \in 1..Len(res) : res[i].file = valid_files[i].name

\* C17 witness: the splitter finished two files with different names; the
\* first one failed, with its segment results collected out of submission
\* order, and the second one succeeded.
C17_Witness ==
    /\ pc = "split_done"
    /\ Len(valid_files) = 2
    /\ valid_files[1].name # valid_files[2].name
    /\ CompleteEvents # <<>>
    /\ ~CompleteEvents[1].results[1].success
    /\ CompleteEvents[1].results[2].success
    /\ Len(SegmentEventsOf(1)) = 2
    /\ SegmentEventsOf(1)[1].segment = 2

\* The positions in the event stream of the events of one kind.
EventsOfKind(kind) == {k \in 1..Len(events) : events[k].event = kind}

\* C18: in every run of the GIF converter, the splitter and the separator
\* the start event comes before every file_start, file_complete,
\* file_error and segment_complete event; a complete event is the last
\* event of the stream, whoever wrote the others; at most one start and at
\* most one complete are emitted.
C18_EventOrder ==
    /\ \A k \in 1..Len(events) :
          events[k].event \in {"file_start", "file_complete", "file_error",
                               "segment_complete"}
             => \E m \in 1..(k - 1) : events[m].event = "start"
    /\ \A k \in EventsOfKind("complete") : k = Len(events)
    /\ Cardinality(EventsOfKind("start")) <= 1
    /\ Cardinality(EventsOfKind("complete")) <= 1

\* C18 witness: a separator run is over in which a worker wrote the error
\* event of a failed probe after the main process had reported another
\* file, and the complete event closes the stream.
C18_Witness ==
    /\ pc = "sep_done"
    /\ EventsOfKind("complete") = {Len(events)}
    /\ EventsOfKind("start") # {}
    /\ \E k \in EventsOfKind("error"), m \in EventsOfKind("file_complete") :
          m < k

\* The entries of the file list that are files, and those that are not.
ValidEntries == {i \in 1..Len(files) : files[i] \in existing}
MissingEntries == {i \in 1..Len(files) : files[i] \notin existing}

\* The error events that report path p as not found.
NotFoundAbout(p) ==
    {k \in EventsOfKind("error") :
        events[k] = [event |-> "error", message |-> "File not found",
                     path |-> p]}

\* The validation of run_batch is over.
Validated == pc \notin {"run_batch", "split_run_batch", "sep_run_batch"}

\* The example of two valid entries around a missing one: one error event,
\* two valid files, a start event with total_files = 2.
C19_ExampleHolds ==
    LET x == [dir |-> "a", name |-> "x.mp4"]
        y == [dir |-> "a", name |-> "y.mp4"]
        gone == [dir |-> "b", name |-> "x.mp4"]
        fs == <<x, gone, y>>
    IN  /\ ValidFiles(fs, {x, y}) = <<x, y>>
        /\ NotFoundEvents(fs, {x, y})
             = << [event |-> "error", message |-> "File not found",
                   path |-> gone] >>
        /\ StartEvent(Len(ValidFiles(fs, {x, y}))).total_files = 2

\* C19: after the validation of run_batch every entry of the file list
\* that is not a file has produced exactly one error event naming it and is
\* not among the valid files; if an entry is valid the run proceeds with a
\* start event; no file is started, encoded or submitted as a job for an
\* excluded entry; the total_files of start and complete and the length of
\* the result list are the number of valid entries.
C19_InvalidEntriesExcluded ==
    /\ C19_ExampleHolds
    /\ Validated =>
          LET n == Cardinality(ValidEntries)
          IN  /\ \A i \in MissingEntries :
                    Cardinality(NotFoundAbout(files[i]))
                      = Cardinality({j \in MissingEntries : files[j] = files[i]})
              /\ \A i \in ValidEntries : NotFoundAbout(files[i]) = {}
              /\ Len(valid_files) = n
              /\ \A i \in 1..Len(valid_files) : valid_files[i] \in existing
              /\ n > 0 => Cardinality(EventsOfKind("start")) = 1
              /\ \A k \in EventsOfKind("start") : events[k].total_files = n
              /\ \A k \in EventsOfKind("file_start") :
                    events[k].path \in existing
              /\ \A k \in EventsOfKind("progress") :
                    events[k].current_file <= n
              /\ \A j \in 1..Len(jobs) : jobs[j].file <= n
              /\ \A k \in 1..Len(invocations) : invocations[k].file <= n
              /\ \A k \in EventsOfKind("complete") :
                    /\ events[k].total_files = n
                    /\ Len(events[k].results) = n

\* C19 witness: a run over a list with one valid and one missing entry has
\* ended with its complete event after processing the valid file.
C19_Witness ==
    /\ pc \in {"done", "split_done"}
    /\ Cardinality(ValidEntries) = 1
    /\ Cardinality(MissingEntries) = 1
    /\ EventsOfKind("complete") # {}
    /\ EventsOfKind("file_start") # {}

\* C20: when no entry of the file list is valid, the run ends at once as a
\* fatal setup failure: the exit status is not zero, the event stream holds
\* exactly one error event and no other event, and nothing is processed.
C20_NoValidFilesIsFatal ==
    (Validated /\ ValidEntries = {}) =>
        /\ exit_code # None
        /\ exit_code # Some(0)
        /\ Cardinality(EventsOfKind("error")) = 1
        /\ Len(events) = 1
        /\ jobs = <<>>
        /\ invocations = <<>>
        /\ results = <<>>


\* ----------------------------------------------------------------- C21
\* The position of main, of a process that main ended, and of a process
\* that ended in any way.
InMain == pc \in {"main", "split_main", "sep_main"}
Exited == pc \in {"exit", "split_exit", "sep_exit"}
\* The configuration main reads is malformed or unavailable: the --config
\* file cannot be read or parsed, or standard input is what main reads
\* and it is a terminal, empty or not JSON.
ReadsConfigFile == Len(argv) > 2 /\ argv[2] = "--config"
AsksHelp == Len(argv) > 1 /\ argv[2] = "--help" /\ ~ReadsConfigFile
Malformed ==
    \/ ReadsConfigFile /\ config_file \in {"unreadable", "invalid"}
    \/ /\ ReadsConfigFile => config_file = "null"
       /\ ~AsksHelp
       /\ stdin \in {"tty", "empty", "invalid"}

\* C21: when the configuration is malformed or unavailable, main emits
\* exactly one error event and nothing else, ends the process with a
\* non-zero status, and run_batch is never entered: the process is either
\* still in main or ended by main, and no start, per-file or complete
\* event exists.
C21_MalformedConfigIsFatal ==
    Malformed =>
        /\ InMain \/ Exited
        /\ Exited =>
              /\ Len(events) = 1
              /\ events[1].event = "error"
              /\ exit_code # None /\ exit_code[1] # 0
        /\ InMain => events = <<>> /\ exit_code = None
        /\ valid_files = <<>> /\ results = <<>> /\ jobs = <<>>

\* An unreadable --config file although a configuration object waits on
\* standard input: main has reported the file and ended the process.
C21_Witness ==
    /\ Exited
    /\ ReadsConfigFile
    /\ config_file = "unreadable"
    /\ stdin = "object"
    /\ Len(files) = 1 /\ existing # {}
    /\ events = <<ErrorEvent(FailedToRead)>>
    /\ exit_code = Some(1)


\* ----------------------------------------------------------------- C22
\* The name of the file a job works on, and the mode, override map and
\* run-wide value of the operation that runs.
JobFileName(j) == valid_files[jobs[j].file].name
InSplitter == pc \in {"split_run_batch", "split_loop", "split_probe",
                      "split_pool", "split_done", "split_crashed"}
ParamMode == IF InSplitter THEN settings.fps_mode
             ELSE settings.sample_rate_mode
ParamMap == IF InSplitter THEN settings.fps_values ELSE settings.sample_rates
ParamDefault == IF InSplitter THEN settings.fps_value
                ELSE settings.sample_rate

\* C22 as stated: for every file, an entry of the override map keyed by
\* the file's name is the value the file's jobs are given, whatever the
\* mode; without an entry the jobs are given the run-wide value.
C22_OverrideMapWins ==
    \A j \in 1..Len(jobs) :
        jobs[j].rate = IF JobFileName(j) \in DOMAIN ParamMap
                       THEN ParamMap[JobFileName(j)]
                       ELSE ParamDefault

\* C22 amended: the entry of the override map is the value the file's
\* jobs are given if the mode is per_file and the map has the file's name;
\* in every other case, an entry under another mode included, the jobs
\* are given the run-wide value.
C22_OverrideMapWinsInPerFileMode ==
    \A j \in 1..Len(jobs) :
        jobs[j].rate = IF ParamMode = "per_file"
                            /\ JobFileName(j) \in DOMAIN ParamMap
                       THEN ParamMap[JobFileName(j)]
                       ELSE ParamDefault

\* A separator run in per_file mode whose two files got different sample
\* rates, one from the map and one from the run-wide value.
C22_Witness ==
    /\ pc = "sep_done"
    /\ settings.sample_rate_mode = "per_file"
    /\ Len(jobs) = 2
    /\ jobs[1].rate = PerFileSampleRate
    /\ jobs[2].rate = settings.sample_rate
    /\ JobFileName(1) \in DOMAIN settings.sample_rates
    /\ JobFileName(2) \notin DOMAIN settings.sample_rates


\* ----------------------------------------------------------------- C23
\* The process ended with a traceback, and the process ended in any way.
Crashed == pc \in {"crashed", "split_crashed", "sep_crashed"}
Ended == exit_code # None

\* C23: once a run has a valid file, no configuration value and no
\* outcome of the external tool ends run_batch through an unhandled
\* exception: the process never ends with a traceback, and a process
\* that ended returned from run_batch after its complete event, with
\* status 0.
C23_FailuresAreContained ==
    valid_files # <<>> =>
        /\ ~Crashed
        /\ Ended => /\ exit_code = Some(0)
                    /\ EventsOfKind("complete") # {}


\* ----------------------------------------------------------------- C24
\* The result of a file whose probe failed, and the positions of such
\* results and of the file_error events reporting a failed probe.
ProbeFailed(r) ==
    /\ ~r.success
    /\ "error" \in DOMAIN r
    /\ r.error = "Failed to probe video"
ProbeFailures == {i \in 1..Len(results) : ProbeFailed(results[i])}
ProbeFileErrors ==
    {k \in EventsOfKind("file_error") :
        events[k].error = "Failed to probe video"}

\* C24: in a process that ended after the probe of some file failed, each
\* such file has a failed result, exactly one file_error event and no
\* encode invocation nor job, its result carries no stream or segment
\* output, and every valid file of the run has its result in the one
\* complete event that ends the run.
C24_ProbeFailureAbortsOnlyItsFile ==
    (Ended /\ ProbeFailures # {}) =>
        /\ Cardinality(ProbeFileErrors) = Cardinality(ProbeFailures)
        /\ \A i \in ProbeFailures :
              /\ DOMAIN results[i] = {"success", "file", "error"}
              /\ ~InSplitter /\ jobs = <<>> =>
                    /\ InvocationsOf(i) = <<>>
                    /\ Len(SelectSeq(EventsOf(i),
                             LAMBDA e : e.event = "file_error")) = 1
              /\ InSplitter =>
                    /\ OfFile(i) = {}
                    /\ Len(SelectSeq(EventsOf(i),
                             LAMBDA e : e.event = "file_error")) = 1
        /\ Len(results) = Len(valid_files)
        /\ Cardinality(EventsOfKind("complete")) = 1
        /\ \A k \in EventsOfKind("complete") :
              /\ k = Len(events)
              /\ events[k].results = results

\* ----------------------------------------------------------------- C25
\* C25: a process that ended after emitting start has emitted exactly one
\* complete event, as its last event; the result list of that event has
\* one entry per valid file, total_files is the number of valid files and
\* the length of the list, successful is the number of entries whose
\* success flag is true, and successful + failed = total_files.
C25_OneCompleteWithConsistentCounters ==
    (Ended /\ EventsOfKind("start") # {}) =>
        /\ Cardinality(EventsOfKind("complete")) = 1
        /\ \A k \in EventsOfKind("complete") :
              LET e == events[k]
              IN  /\ k = Len(events)
                  /\ Len(e.results) = Len(valid_files)
                  /\ e.total_files = Len(e.results)
                  /\ e.successful + e.failed = e.total_files
                  /\ e.successful
                       = Cardinality({i \in 1..Len(e.results) :
                                         e.results[i].success})


\* ----------------------------------------------------------------- C26
\* floor(source * scalePercent / 100), and the requirement on one output
\* dimension of mode scale.
RoundedUpToEven(out, source, percent) ==
    LET scaled == ScaledExactly(source, percent)
    IN  /\ out % 2 = 0
        /\ out \in {scaled, scaled + 1}
        /\ out >= scaled

\* C26: in mode scale each dimension build_scale_filter returns is even,
\* is floor(source * scalePercent / 100) or that value plus one, and is
\* not below it, for every source dimension and percentage.
C26_ScaledDimensionsRoundUpToEven ==
    (pc = "scale_returned" /\ "mode" \in DOMAIN resolution_config
        /\ resolution_config.mode = "scale") =>
        LET percent == IF "scalePercent" \in DOMAIN resolution_config
                       THEN resolution_config.scalePercent ELSE 50
        IN  /\ RoundedUpToEven(scale_filter[1].w, source_width, percent)
            /\ RoundedUpToEven(scale_filter[1].h, source_height, percent)


\* ----------------------------------------------------------------- C27
\* The streams a separator result holds as extracted.
ExtractedStreams(result) ==
    {st \in {"video", "audio"} :
        /\ st \in DOMAIN result
        /\ result[st].success
        /\ "skipped" \notin DOMAIN result[st]}
\* The positions of the events of one kind in a sequence of events.
KindIn(evs, kind) == {k \in 1..Len(evs) : evs[k].event = kind}

\* The splitter half: a collected job whose segment was encoded has
\* exactly one segment_complete event among the events of its file, with
\* its output reference and before the file_complete of the file.
SegmentSuccessReported ==
    InSplitter =>
        \A j \in 1..Len(jobs) :
            (jobs[j].state = "collected" /\ jobs[j].result.success) =>
                LET evs == EventsOf(jobs[j].file)
                    mine == {k \in KindIn(evs, "segment_complete") :
                                evs[k].segment = jobs[j].segment}
                IN  /\ Cardinality(mine) = 1
                    /\ \A k \in mine :
                          /\ evs[k].output = jobs[j].result.output
                          /\ \A m \in KindIn(evs, "file_complete") : k < m

\* The separator half: a collected job has, for each stream it extracted,
\* one stream_complete event of its file with the output reference of the
\* stream, before the file_complete or file_error event of the file.
StreamSuccessReported ==
    ~InSplitter =>
        \A j \in 1..Len(jobs) :
            jobs[j].state = "collected" =>
                \A st \in ExtractedStreams(jobs[j].result) :
                    \E k \in EventsOfKind("stream_complete") :
                        /\ events[k].file = JobFileName(j)
                        /\ events[k].output = jobs[j].result[st].output
                        /\ \E m \in (k + 1)..Len(events) :
                              /\ events[m].event
                                   \in {"file_complete", "file_error"}
                              /\ events[m].file = JobFileName(j)

\* C27: every successfully encoded segment of the splitter is reported by
\* exactly one segment_complete event, and every successfully extracted
\* stream of the separator by a stream_complete event, each carrying the
\* output reference and emitted before the aggregate event of its file.
C27_PerUnitSuccessEvents ==
    /\ SegmentSuccessReported
    /\ StreamSuccessReported


\* ----------------------------------------------------------------- C28
\* The run is over as it should be: complete is emitted, the process has
\* ended, and every submitted job has been collected.
RunComplete ==
    /\ EventsOfKind("complete") # {}
    /\ Ended
    /\ \A j \in 1..Len(jobs) : jobs[j].state = "collected"

\* C28: when every step that can be taken is eventually taken, every run
\* with a valid file eventually emits complete and stops with every
\* submitted job collected.
C28_RunsComplete == (valid_files # <<>>) ~> RunComplete


\* ----------------------------------------------------------------- C29
InGif == pc \in {"run_batch", "loop", "probe", "extract", "concat",
                 "palette", "gif", "done", "crashed"}
\* The progress event of file number f has been emitted.
Announced(f) ==
    \E k \in EventsOfKind("progress") : events[k].current_file = f

\* C29: in the GIF converter every valid file of a run that ended has had
\* its turn; a file that had its turn has exactly one file_start and then
\* exactly one terminal event, file_complete or file_error, before the
\* progress event of the next file; the terminal event is file_complete
\* exactly if the result of the file is a success; a file whose turn is
\* not over has its file_start and no terminal event.
C29_OneStartOneTerminalPerFile ==
    InGif =>
        /\ Ended => Len(results) = Len(valid_files)
        /\ \A f \in 1..Len(valid_files) :
              Announced(f) =>
                 LET evs == EventsOf(f)
                     starts == KindIn(evs, "file_start")
                     ends == KindIn(evs, "file_complete")
                               \cup KindIn(evs, "file_error")
                 IN  /\ starts = {1}
                     /\ f <= Len(results) =>
                           /\ ends = {Len(evs)}
                           /\ Len(evs) > 1
                           /\ results[f].success
                                <=> evs[Len(evs)].event = "file_complete"
                     /\ f > Len(results) => ends = {}


\* ----------------------------------------------------------------- C30
\* C30: in the splitter every file that had its turn in a run that ended
\* has a result; a file with a result whose probe succeeded has exactly
\* one file_complete event, after every segment_complete and per-segment
\* file_error event of the file; the success flag of that event is true
\* exactly if no segment failed, and segments_completed plus the number of
\* failed segments is segments_total, the number of jobs of the file.
C30_FileCompleteAfterItsSegments ==
    InSplitter =>
        \A f \in 1..Len(valid_files) :
            Announced(f) =>
                /\ Ended => f <= Len(results)
                /\ (f <= Len(results) /\ ~ProbeFailed(results[f])) =>
                      LET evs == EventsOf(f)
                          done == KindIn(evs, "file_complete")
                          segs == SegmentEventsOf(f)
                          failed == KindIn(segs, "file_error")
                          last == evs[Len(evs)]
                      IN  /\ done = {Len(evs)}
                          /\ last.success <=> failed = {}
                          /\ last.success <=> results[f].success
                          /\ last.segments_completed + Cardinality(failed)
                               = last.segments_total
                          /\ last.segments_total = Cardinality(OfFile(f))
                          /\ Len(segs) = Cardinality(OfFile(f))


\* ----------------------------------------------------------------- C31
\* The invocations of the worker for one stream, and those that met the
\* success condition of their extraction function.
StreamInvocations(st) ==
    {k \in 1..Len(invocations) : invocations[k].stream = st}
Succeeded(st) ==
    {k \in StreamInvocations(st) : invocations[k].outcome = "ok"}
\* process_single_file returned after a successful probe.
ReturnedProbed == pc = "psf_returned" /\ info # None

\* C31: when process_single_file returns for a probed file, its result is
\* a success exactly if the video extraction succeeded and the audio
\* extraction succeeded or was skipped for want of an audio stream; the
\* audio extraction was attempted exactly if the probe reported an audio
\* stream, whether the video extraction failed or not, and it was skipped
\* exactly if there is none.
C31_SeparatorSuccessRule ==
    ReturnedProbed =>
        LET result == single_result[1]
            has_audio == info[1].has_audio
        IN  /\ Cardinality(StreamInvocations("video")) = 1
            /\ result.video.success <=> Succeeded("video") # {}
            /\ (StreamInvocations("audio") # {}) <=> has_audio
            /\ GetFlag(result.audio, "skipped") <=> ~has_audio
            /\ has_audio =>
                  (result.audio.success <=> Succeeded("audio") # {})
            /\ result.success
                 <=> /\ Succeeded("video") # {}
                     /\ Succeeded("audio") # {} \/ ~has_audio

\* C31 witness: the video extraction failed, the audio extraction was
\* attempted all the same and succeeded, and the file's result is a
\* failure.
C31_Witness ==
    /\ ReturnedProbed
    /\ info[1].has_audio
    /\ Succeeded("video") = {}
    /\ Succeeded("audio") # {}
    /\ ~single_result[1].success
    /\ single_result[1].audio.success

\* ----------------------------------------------------------------- C32
\* The codecs of the audio invocations, in the order in which they ran.
AudioCodecsTried ==
    LET IsAudio(c) == c.stream = "audio"
        tried == SelectSeq(invocations, IsAudio)
    IN  [k \in 1..Len(tried) |-> tried[k].codec]
AudioOutcomesSeen ==
    LET IsAudio(c) == c.stream = "audio"
        tried == SelectSeq(invocations, IsAudio)
    IN  [k \in 1..Len(tried) |-> tried[k].outcome]
AllMethods == AudioMethods \o <<RawCopy>>

\* C32: at every moment the audio invocations made so far are the first
\* ones of the list 16-bit PCM, float PCM, forced WAV, raw copy, in that
\* order, and none of them but the last has succeeded; when
\* extract_audio_stream has returned a success the last invocation
\* succeeded, and when it has returned a failure all four methods were
\* invoked and none succeeded; a method that raised counts as failed.
C32_AudioMethodsInOrder ==
    LET n == Len(AudioCodecsTried)
    IN  /\ n <= Len(AllMethods)
        /\ AudioCodecsTried = SubSeq(AllMethods, 1, n)
        /\ \A k \in 1..(n - 1) : AudioOutcomesSeen[k] # "ok"
        /\ (audio_result # None /\ ~GetFlag(audio_result[1], "skipped")) =>
              IF audio_result[1].success
              THEN /\ AudioOutcomesSeen[n] = "ok"
                   /\ audio_result[1].output
                        = IF n = Len(AllMethods) THEN RawOutput(video_path)
                          ELSE AudioOutput(video_path)
              ELSE /\ n = Len(AllMethods)
                   /\ \A k \in 1..n : AudioOutcomesSeen[k] # "ok"

\* C32 witness: the first method raised, the second left no usable file,
\* the third returned an error code, and the raw copy succeeded.
C32_Witness ==
    /\ pc = "psf_returned"
    /\ AudioOutcomesSeen = <<"raise", "small", "nonzero", "ok">>
    /\ AudioCodecsTried = AllMethods
    /\ audio_result # None
    /\ audio_result[1].success
    /\ "warning" \in DOMAIN audio_result[1]



\* ---- C33
TasksBuilt == pc \in {"tasks_returned", "tasks_raised"}
\* Each task starts where the previous ones end, inside the source.
StartsTile ==
    \A i \in 1..Len(segment_tasks) :
        /\ FracEq(segment_tasks[i].start_time,
                  FracTimes(i - 1, segment_tasks[i].segment_duration))
        /\ FracLess(segment_tasks[i].start_time, Frac(duration, 1))
\* The segments together are at least as long as the source.
CoversSource ==
    /\ Len(segment_tasks) > 0
    /\ ~FracLess(FracTimes(Len(segment_tasks),
                           segment_tasks[1].segment_duration),
                 Frac(duration, 1))
\* The count and the length of the segments the mode asks for: the ceiling
\* of duration / split_value in duration mode, split_value segments of
\* duration / split_value in segments mode.
CountOfMode ==
    LET n == Len(segment_tasks)
    IN  IF split_method = "duration"
        THEN n * split_value >= duration /\ (n - 1) * split_value < duration
        ELSE /\ n * TicksPerSecond = split_value
             /\ \A i \in 1..n :
                   FracEq(segment_tasks[i].segment_duration,
                          Frac(duration * TicksPerSecond, split_value))
\* C33: for every positive duration and positive split_value the segment
\* tasks built for a file tile the source: task i starts at
\* (i-1)*segment_duration, every start is before the end of the file, the
\* segments cover the duration, and the count is ceil(duration/split_value)
\* in duration mode and exactly split_value in segments mode.
C33_SegmentTasksTile ==
    (TasksBuilt /\ duration > 0 /\ split_value > 0)
        => /\ pc = "tasks_returned"
           /\ StartsTile
           /\ CoversSource
           /\ CountOfMode



\* ---- C34
\* C34: when the user splits by number of segments N, split_video attempts
\* to create N segment files, the number shown in the Settings Summary.
C34_InteractiveSegmentCount ==
    (pc = "split_video_returned" /\ split_method = "1")
        => /\ summary[1].num_segments = split_value
           /\ Len(segment_tasks) = split_value



\* ---- C35
\* The cut list without its k-th entry.
WithoutCut(cuts, k) == SubSeq(cuts, 1, k - 1) \o SubSeq(cuts, k + 1, Len(cuts))
\* The cut removes no time: its endpoints coincide, as given when nothing
\* is snapped and after snapping otherwise.
RemovesNoTime(cut, fps) ==
    IF fps > 0
    THEN snap_to_frame(cut.start, fps) = snap_to_frame(cut.end, fps)
    ELSE cut.start = cut.end
\* C35: a cut whose start and end coincide (as given, or after both
\* endpoints snap to the same frame tick) leaves the keep-segment list
\* unchanged: the list is the one the other cuts alone give, so the cut
\* never moves the pipeline from the direct path to extract-and-join.
C35_EmptyCutChangesNothing ==
    pc = "returned"
        => \A k \in 1..Len(cut_segments) :
              RemovesNoTime(cut_segments[k], target_fps)
                  => LET without ==
                             calculate_keep_segments(duration, trim_start,
                                 trim_end, WithoutCut(cut_segments, k),
                                 target_fps)
                     IN  /\ keep_segments = without
                         /\ UsesExtractAndJoin(keep_segments)
                                = UsesExtractAndJoin(without)



\* ---- C36
\* What C36 asks of the progress events emitted so far: they count the
\* valid files 1, 2, ... in order, each names its file and the total, and
\* each comes after the terminal event of the previous file and before
\* the file_start of its own file.
ProgressInOrder ==
    LET progress == EventsOfKind("progress")
    IN  \A k \in progress :
           LET f == events[k].current_file
           IN  /\ f = Cardinality({j \in progress : j <= k})
               /\ f <= Len(valid_files)
               /\ events[k].total_files = Len(valid_files)
               /\ events[k].filename = valid_files[f].name
               /\ Cardinality({j \in EventsOfKind("file_start") : j < k})
                     = f - 1
               /\ f > 1 => events[k - 1].event
                              \in {"file_complete", "file_error"}
\* C36: in the GIF converter and the batch splitter exactly one progress
\* event is emitted per valid file, with current_file 1, 2, ...,
\* total_files in increasing order, before that file's file_start and
\* after the terminal per-file event of the previous file.
C36_OneProgressPerValidFile ==
    ((InGif \/ InSplitter) /\ Validated)
        => /\ ProgressInOrder
           /\ Ended => Cardinality(EventsOfKind("progress")) = Len(valid_files)



\* ---- C37
\* The identities the complete event lists, and the valid entries of the
\* file list.
ResultIdentities(c) ==
    {events[c].results[i].file : i \in 1..Len(events[c].results)}
ValidPaths == {valid_files[i] : i \in 1..Len(valid_files)}
\* C37: the identity that correlates events and results is unique within
\* a run: two different valid entries of the file list never get the same
\* identity, neither in the per-file events nor in the result list of the
\* complete event (and so each finds its own entry of the override map).
C37_IdentitiesAreUnique ==
    /\ \A k \in EventsOfKind("file_start"), m \in EventsOfKind("file_start") :
          events[k].path # events[m].path => events[k].file # events[m].file
    /\ \A c \in EventsOfKind("complete") :
          Cardinality(ResultIdentities(c)) = Cardinality(ValidPaths)

=============================================================================
